---- MODULE Spec2Model ----
(***************************************************************************)
(* The wtmux MCP tool server (wtmux-mcp.py): the line-delimited JSON-RPC   *)
(* dispatcher, the three tool handlers and the config store, as a state    *)
(* machine over a small file system.                                       *)
(***************************************************************************)
EXTENDS Integers, Sequences, FiniteSets, TLC

VARIABLES
    fs,         \* per repository path: .wtmux directory, config.json, config.json.tmp, .gitignore
    pc,         \* position of the server process
    cur,        \* the message being handled (kept after the call returns)
    before,     \* the files as they were when cur was read
    written,    \* chunks json.dump has written to the open temporary file
    resp,       \* what handle_request produced for cur
    requested,  \* ids of the id-carrying messages read so far, in arrival order
    output,     \* the lines written to stdout so far
    nlines,     \* number of input lines read
    ignoreLog,  \* per ensure_gitignore run: the value returned and the .gitignore text left (ignore-list specification)
    tree,       \* what an analyzer function is given: the working tree, or a script (analyzer specifications)
    found,      \* what the analyzer function returned for tree
    procs       \* per server process: its position in configure_project and its open file (two-process specification)

vars == <<fs, pc, cur, before, written, resp, requested, output, nlines, ignoreLog, tree, found, procs>>

----------------------------------------------------------------------------
(* Bounds of the model *)

MaxLines == 2        \* input lines one server run reads (server specification)
MaxCalls == 2        \* tool calls one server run serves (config-store specification)
BodyChunks == 2      \* pieces in which the body of a JSON document reaches the file
MaxIgnoreLen == 4    \* tokens in an initial .gitignore of the ignore-list specification
MaxRuns == 2         \* successive ensure_gitignore runs in the ignore-list specification
MaxReads == 1        \* tool calls one server run serves in the read specification
MaxTreeDepth == 6    \* directory levels of the deepest file in a working tree of the scan specification
MaxNameParts == 3    \* fragments a script name is put together from in the script specification

----------------------------------------------------------------------------
(* JSON values as a tagged tree; Python's view of them *)

JNull == [t |-> "null"]
JBool(b) == [t |-> "bool", b |-> b]
JInt(n) == [t |-> "int", n |-> n]
JStr(s) == [t |-> "str", s |-> s]
JList(xs) == [t |-> "list", xs |-> xs]
JDict(kv) == [t |-> "dict", kv |-> kv]
EmptyDict == JDict([k \in {} |-> JNull])
EmptyList == JList(<< >>)

IsDict(v) == v.t = "dict"

\* bool(v): the truth value Python gives a decoded JSON value
Truthy(v) ==
    CASE v.t = "null" -> FALSE
      [] v.t = "bool" -> v.b
      [] v.t = "int" -> v.n # 0
      [] v.t = "str" -> v.s # ""
      [] v.t = "list" -> v.xs # << >>
      [] v.t = "dict" -> DOMAIN v.kv # {}

\* d.get(k, default) on a dict d
Get(d, k, default) == IF k \in DOMAIN d.kv THEN d.kv[k] ELSE default

\* isinstance(v, int): bool is a subclass of int
IsInstanceInt(v) == v.t \in {"int", "bool"}

\* the number a value compares as in "port < 1" for the values isinstance accepts
AsNumber(v) == IF v.t = "bool" THEN (IF v.b THEN 1 ELSE 0) ELSE v.n

\* a call either returns a value or raises
Ok(v) == [exc |-> "", val |-> v]
Raise(e) == [exc |-> e, val |-> JNull]

----------------------------------------------------------------------------
(* Tool results *)

error_result(text) == [content |-> text, isError |-> TRUE]
text_result(text) == [content |-> text, isError |-> FALSE]

----------------------------------------------------------------------------
(* Files *)

NoFile == [exists |-> FALSE, data |-> << >>]
File(data) == [exists |-> TRUE, data |-> data]

\* The text json.dump(v, indent=2, sort_keys=True) followed by "\n" produces,
\* in the pieces in which it reaches the file: BodyChunks pieces of the
\* document, then the newline.
NL == [part |-> 0, of |-> JNull]
Garbage == [part |-> -1, of |-> JNull]
\* bytes that are not UTF-8: reading the text file raises UnicodeDecodeError
Undecodable == [part |-> -2, of |-> JNull]
Serialize(v) == [i \in 1..BodyChunks |-> [part |-> i, of |-> v]] \o <<NL>>

RECURSIVE StripNL(_)
StripNL(data) ==
    IF data # << >> /\ data[Len(data)] = NL
    THEN StripNL(SubSeq(data, 1, Len(data) - 1))
    ELSE data

\* json.load: f.read() decodes the bytes, which raises UnicodeDecodeError when
\* they are not UTF-8; then the document when the text is one complete
\* document (trailing whitespace allowed), JSONDecodeError otherwise
JSONLoad(data) ==
    LET body == StripNL(data) IN
    IF \E i \in 1..Len(data) : data[i] = Undecodable THEN Raise("UnicodeDecodeError")
    ELSE
    IF /\ Len(body) = BodyChunks
       /\ \A i \in 1..BodyChunks : body[i].part = i /\ body[i].of = body[1].of
    THEN Ok(body[1].of)
    ELSE Raise("JSONDecodeError")

----------------------------------------------------------------------------
(* Repository paths *)

AbsRepo == "/repo"          \* absolute, holds .git
AbsPlain == "/plain"        \* absolute directory without .git
RelRepo == "work/repo"      \* relative path to a directory that holds .git
Paths == {AbsRepo, AbsPlain, RelRepo}

\* repo_path.startswith("/")
startswithSlash(p) == p \in {AbsRepo, AbsPlain}

\* a check that the path is a directory, not that it holds .git
IsDirOnly(p) == p \in {AbsRepo, AbsPlain, RelRepo}

\* os.path.isdir(os.path.join(repo_path, ".git"))
HasGitDir(p) == p \in {AbsRepo, RelRepo}

\* only the bare form of the entry
BareEntryOnly == {<<".wtmux">>}

\* the lines ensure_gitignore takes for the entry: (".wtmux", ".wtmux/")
CONFIG_ENTRIES == {<<".wtmux">>, <<".wtmux/">>}

----------------------------------------------------------------------------
(* Config store *)

\* read_config: the decoded file, or None when open raises OSError or json.load
\* raises JSONDecodeError; any other exception goes on to the caller
read_config(files, repo_path) ==
    LET f == files[repo_path].config IN
    IF ~f.exists THEN Ok(JNull)
    ELSE LET r == JSONLoad(f.data) IN
         IF r.exc = "JSONDecodeError" THEN Ok(JNull) ELSE r

\* .gitignore text as a sequence of tokens: "\n", " " and words without either
RECURSIVE SplitLines(_, _)
SplitLines(contents, line) ==
    IF contents = << >> THEN <<line>>
    ELSE IF Head(contents) = "\n"
         THEN <<line>> \o SplitLines(Tail(contents), << >>)
         ELSE SplitLines(Tail(contents), Append(line, Head(contents)))

split(contents) == SplitLines(contents, << >>)

RECURSIVE lstrip(_)
lstrip(line) ==
    IF line # << >> /\ Head(line) = " " THEN lstrip(Tail(line)) ELSE line

RECURSIVE rstrip(_)
rstrip(line) ==
    IF line # << >> /\ line[Len(line)] = " "
    THEN rstrip(SubSeq(line, 1, Len(line) - 1))
    ELSE line

strip(line) == rstrip(lstrip(line))

endswithNewline(contents) == contents # << >> /\ contents[Len(contents)] = "\n"

\* f.read() of a file opened with open(path, "r"): text mode reads "\r\n" and
\* a "\r" on its own as "\n"
RECURSIVE read_text(_)
read_text(data) ==
    IF data = << >> THEN << >>
    ELSE IF Head(data) = "\r"
    THEN IF Tail(data) # << >> /\ Head(Tail(data)) = "\n"
         THEN read_text(Tail(data))
         ELSE <<"\n">> \o read_text(Tail(data))
    ELSE <<Head(data)>> \o read_text(Tail(data))

\* ensure_gitignore: the files afterwards and the value returned
ensure_gitignore(files, repo_path) ==
    LET g == files[repo_path].gitignore
        contents == IF g.exists THEN read_text(g.data) ELSE << >>
        lines == split(contents)
        listed == \E i \in 1..Len(lines) : strip(lines[i]) \in CONFIG_ENTRIES
        suffix == IF endswithNewline(contents) THEN << >> ELSE <<"\n">>
    IN IF listed
       THEN [files |-> files, added |-> FALSE]
       ELSE [files |-> [files EXCEPT ![repo_path].gitignore =
                           File(contents \o suffix \o <<".wtmux", "\n">>)],
             added |-> TRUE]

----------------------------------------------------------------------------
(* Strings as sequences of characters *)

UpperCase == <<"A", "B", "C", "D", "E", "F", "G", "H", "I", "J", "K", "L", "M", "N", "O", "P", "Q", "R", "S", "T", "U", "V", "W", "X", "Y", "Z">>
LowerCase == <<"a", "b", "c", "d", "e", "f", "g", "h", "i", "j", "k", "l", "m", "n", "o", "p", "q", "r", "s", "t", "u", "v", "w", "x", "y", "z">>

\* a string left as it is
NoLower(s) == s

\* the lower-case letter of each upper-case letter
ToLower ==
    [c \in {UpperCase[k] : k \in 1..Len(UpperCase)} |->
        LowerCase[CHOOSE k \in 1..Len(UpperCase) : UpperCase[k] = c]]

\* str.lower()
lower(s) ==
    [i \in 1..Len(s) |-> IF s[i] \in DOMAIN ToLower THEN ToLower[s[i]] ELSE s[i]]

\* p in s
contains(s, p) ==
    \E i \in 0..(Len(s) - Len(p)) : SubSeq(s, i + 1, i + Len(p)) = p

\* s.startswith(p), s.endswith(p)
startswith(s, p) == Len(s) >= Len(p) /\ SubSeq(s, 1, Len(p)) = p
endswith(s, p) == Len(s) >= Len(p) /\ SubSeq(s, Len(s) - Len(p) + 1, Len(s)) = p

\* any(p in s for p in patterns)
any_in(patterns, s) == \E k \in 1..Len(patterns) : contains(s, patterns[k])

\* the characters of the model in code-point order, and the order of strings
Alphabet ==
    <<" ", "-", ".", "/">> \o <<"0", "1", "2", "3", "4", "5", "6", "7", "8", "9">>
        \o <<":">> \o UpperCase \o <<"_">> \o LowerCase
CodeOf ==
    [c \in {Alphabet[k] : k \in 1..Len(Alphabet)} |->
        CHOOSE k \in 1..Len(Alphabet) : Alphabet[k] = c]

\* a < b on str
str_less(a, b) ==
    \E i \in 1..(Len(a) + 1) :
        /\ \A k \in 1..(i - 1) : k <= Len(b) /\ a[k] = b[k]
        /\ i <= Len(b)
        /\ i <= Len(a) => CodeOf[a[i]] < CodeOf[b[i]]

\* list.sort() on a list that holds each of the strings of S once
RECURSIVE sorted(_)
sorted(S) ==
    IF S = {} THEN << >>
    ELSE LET least == CHOOSE x \in S : \A y \in S : ~str_less(y, x)
         IN <<least>> \o sorted(S \ {least})

----------------------------------------------------------------------------
(* Env-file scan; a working tree is the set of its regular files, each the
   sequence of names from the repository root down to the file *)

SKIP_DIRS ==
    {<<"n", "o", "d", "e", "_", "m", "o", "d", "u", "l", "e", "s">>,
     <<".", "g", "i", "t">>,
     <<"v", "e", "n", "d", "o", "r">>,
     <<".", "b", "u", "i", "l", "d">>,
     <<"D", "e", "r", "i", "v", "e", "d", "D", "a", "t", "a">>,
     <<".", "s", "v", "n">>,
     <<".", "h", "g">>,
     <<"P", "o", "d", "s">>,
     <<"C", "a", "r", "t", "h", "a", "g", "e">>,
     <<".", "s", "w", "i", "f", "t", "p", "m">>,
     <<"b", "u", "i", "l", "d">>,
     <<"d", "i", "s", "t">>,
     <<".", "n", "e", "x", "t">>,
     <<".", "n", "u", "x", "t">>}
MAX_DEPTH == 5

\* only the names that start with .env
StartsWithEnvOnly(name) == startswith(name, <<".", "e", "n", "v">>)

is_env_file(name) == startswith(name, <<".", "e", "n", "v">>) \/ endswith(name, <<".", "e", "n", "v">>)

\* os.listdir(dirpath), os.path.isdir(full), os.path.isfile(full)
listdir(files, dirpath) ==
    {q[Len(dirpath) + 1] :
        q \in {q \in files : Len(q) > Len(dirpath) /\ SubSeq(q, 1, Len(dirpath)) = dirpath}}
isdir(files, full) ==
    \E q \in files : Len(q) > Len(full) /\ SubSeq(q, 1, Len(full)) = full
isfile(files, full) == full \in files

\* os.path.relpath(full, repo_path): the names joined with "/"
RECURSIVE relpath(_)
relpath(full) ==
    IF Len(full) = 1 THEN full[1]
    ELSE full[1] \o <<"/">> \o relpath(Tail(full))

\* every directory descended into
DescendsAll(name) == TRUE

\* name not in SKIP_DIRS and not name.startswith(".")
Descends(name) == name \notin SKIP_DIRS /\ ~startswith(name, <<".">>)

\* scan_dir(dirpath, depth): the paths it adds to results; the order of
\* os.listdir does not outlive results.sort()
RECURSIVE scan_dir(_, _, _)
scan_dir(files, dirpath, depth) ==
    IF depth > MAX_DEPTH THEN {}
    ELSE UNION {LET full == Append(dirpath, name) IN
                IF isdir(files, full)
                THEN (IF Descends(name) THEN scan_dir(files, full, depth + 1) ELSE {})
                ELSE IF isfile(files, full) /\ is_env_file(name)
                THEN {relpath(full)}
                ELSE {} : name \in listdir(files, dirpath)}

scan_env_files(files) == sorted(scan_dir(files, << >>, 0))

----------------------------------------------------------------------------
(* Script categorization *)

DEV_NAME_PATTERNS ==
    <<<<"d", "e", "v">>,
      <<"s", "t", "a", "r", "t">>,
      <<"s", "e", "r", "v", "e">>,
      <<"w", "a", "t", "c", "h">>>>
DEV_CMD_PATTERNS ==
    <<<<"v", "i", "t", "e">>,
      <<"n", "e", "x", "t", " ", "d", "e", "v">>,
      <<"n", "o", "d", "e", "m", "o", "n">>,
      <<"w", "e", "b", "p", "a", "c", "k", " ", "s", "e", "r", "v", "e">>,
      <<"w", "e", "b", "p", "a", "c", "k", "-", "d", "e", "v", "-", "s", "e", "r", "v", "e", "r">>,
      <<"t", "s", "-", "n", "o", "d", "e", "-", "d", "e", "v">>,
      <<"t", "s", "x", " ", "w", "a", "t", "c", "h">>,
      <<"n", "u", "x", "t", " ", "d", "e", "v">>,
      <<"r", "e", "m", "i", "x", " ", "d", "e", "v">>,
      <<"a", "s", "t", "r", "o", " ", "d", "e", "v">>>>
BUILD_PATTERNS ==
    <<<<"b", "u", "i", "l", "d">>,
      <<"c", "o", "m", "p", "i", "l", "e">>,
      <<"b", "u", "n", "d", "l", "e">>>>
TEST_PATTERNS ==
    <<<<"t", "e", "s", "t">>,
      <<"e", "2", "e">>,
      <<"c", "y", "p", "r", "e", "s", "s">>,
      <<"v", "i", "t", "e", "s", "t">>,
      <<"p", "l", "a", "y", "w", "r", "i", "g", "h", "t">>>>
LINT_PATTERNS ==
    <<<<"l", "i", "n", "t">>,
      <<"f", "o", "r", "m", "a", "t">>,
      <<"c", "h", "e", "c", "k">>,
      <<"p", "r", "e", "t", "t", "i", "e", "r">>,
      <<"t", "y", "p", "e", "c", "h", "e", "c", "k">>,
      <<"t", "y", "p", "e", "-", "c", "h", "e", "c", "k">>>>

categorize_script(name, command) ==
    LET lower_name == lower(name)
        lower_cmd == lower(command)
    IN IF any_in(DEV_NAME_PATTERNS, lower_name) \/ any_in(DEV_CMD_PATTERNS, lower_cmd)
       THEN "devServer"
       ELSE IF any_in(BUILD_PATTERNS, lower_name) THEN "build"
       ELSE IF any_in(TEST_PATTERNS, lower_name) THEN "test"
       ELSE IF any_in(LINT_PATTERNS, lower_name) THEN "lint"
       ELSE "other"

----------------------------------------------------------------------------
(* Package-manager detection; root is the set of regular files at the
   repository root *)

PACKAGE_MANAGER_CANDIDATES ==
    <<[manifest |-> "package.json", lock_file |-> JStr("bun.lockb"), name |-> "bun", setup_cmd |-> "bun install"],
      [manifest |-> "package.json", lock_file |-> JStr("bun.lock"), name |-> "bun", setup_cmd |-> "bun install"],
      [manifest |-> "package.json", lock_file |-> JStr("pnpm-lock.yaml"), name |-> "pnpm", setup_cmd |-> "pnpm install"],
      [manifest |-> "package.json", lock_file |-> JStr("yarn.lock"), name |-> "yarn", setup_cmd |-> "yarn install"],
      [manifest |-> "package.json", lock_file |-> JNull, name |-> "npm", setup_cmd |-> "npm install"],
      [manifest |-> "Gemfile", lock_file |-> JNull, name |-> "bundler", setup_cmd |-> "bundle install"],
      [manifest |-> "requirements.txt", lock_file |-> JNull, name |-> "pip", setup_cmd |-> "pip install -r requirements.txt"],
      [manifest |-> "pyproject.toml", lock_file |-> JNull, name |-> "pip", setup_cmd |-> "pip install -e ."],
      [manifest |-> "composer.json", lock_file |-> JNull, name |-> "composer", setup_cmd |-> "composer install"],
      [manifest |-> "Cargo.toml", lock_file |-> JNull, name |-> "cargo", setup_cmd |-> "cargo build"],
      [manifest |-> "go.mod", lock_file |-> JNull, name |-> "go", setup_cmd |-> "go mod download"],
      [manifest |-> "Package.swift", lock_file |-> JNull, name |-> "swift", setup_cmd |-> "swift package resolve"],
      [manifest |-> "Podfile", lock_file |-> JNull, name |-> "cocoapods", setup_cmd |-> "pod install"]>>

\* a candidate taken for its manifest alone
ManifestOnly(root, c) == c.manifest \in root

\* the two os.path.isfile tests of the loop: the manifest, and the lock file
\* when the candidate names one
CandidateMatches(root, c) ==
    /\ c.manifest \in root
    /\ c.lock_file # JNull => c.lock_file.s \in root

\* the loop of detect_package_manager from candidate i on
RECURSIVE DetectFrom(_, _)
DetectFrom(root, i) ==
    IF i > Len(PACKAGE_MANAGER_CANDIDATES) THEN JNull
    ELSE LET c == PACKAGE_MANAGER_CANDIDATES[i] IN
         IF CandidateMatches(root, c)
         THEN JDict([name |-> JStr(c.name),
                     setupCommand |-> JStr(c.setup_cmd),
                     lockFile |-> c.lock_file])
         ELSE DetectFrom(root, i + 1)

detect_package_manager(root) == DetectFrom(root, 1)

----------------------------------------------------------------------------
(* Script parsing: what the shape of the manifest makes of it *)

JS_MANAGERS == {"npm", "yarn", "pnpm", "bun"}

CATEGORY_ORDER == [devServer |-> 0, build |-> 1, test |-> 2, lint |-> 3, other |-> 4]

\* run_prefix for each of JS_MANAGERS; the default of .get is for a name
\* outside the dict, which the test on JS_MANAGERS has excluded
run_prefix ==
    [npm |-> <<"n", "p", "m", " ", "r", "u", "n">>,
     yarn |-> <<"y", "a", "r", "n">>,
     pnpm |-> <<"p", "n", "p", "m", " ", "r", "u", "n">>,
     bun |-> <<"b", "u", "n", " ", "r", "u", "n">>]

\* an order that looks at the script names alone
name_less(a, b) == str_less(a.kv["name"].s, b.kv["name"].s)

\* a < b on the sort key (CATEGORY_ORDER.get(s["category"], 4), s["name"])
key_less(a, b) ==
    \/ CATEGORY_ORDER[a.kv["category"].s] < CATEGORY_ORDER[b.kv["category"].s]
    \/ /\ CATEGORY_ORDER[a.kv["category"].s] = CATEGORY_ORDER[b.kv["category"].s]
       /\ str_less(a.kv["name"].s, b.kv["name"].s)

\* result.sort(key=...) on the entries of S, no two of which have one name
RECURSIVE sort_by_key(_)
sort_by_key(S) ==
    IF S = {} THEN << >>
    ELSE LET least == CHOOSE x \in S : \A y \in S : ~key_less(y, x)
         IN <<least>> \o sort_by_key(S \ {least})

\* parse_scripts(repo_path, package_manager), package.json being the file
\* pkgFile.  categorize_script(name, command) starts with command.lower(),
\* which a command that is not a string does not have.
parse_scripts(pkgFile, package_manager) ==
    IF ~Truthy(package_manager) \/ Get(package_manager, "name", JNull).s \notin JS_MANAGERS
    THEN Ok(EmptyList)
    ELSE IF ~pkgFile.exists \/ JSONLoad(pkgFile.data).exc = "JSONDecodeError"
    THEN Ok(EmptyList)
    ELSE IF JSONLoad(pkgFile.data).exc # "" THEN JSONLoad(pkgFile.data)
    ELSE LET pkg == JSONLoad(pkgFile.data).val IN
         IF ~IsDict(pkg) THEN Raise("AttributeError")
         ELSE LET scripts == Get(pkg, "scripts", JNull) IN
              IF ~IsDict(scripts) THEN Ok(EmptyList)
              ELSE IF \E n \in DOMAIN scripts.kv : scripts.kv[n].t # "str"
              THEN Raise("AttributeError")
              ELSE LET pm_name == package_manager.kv["name"].s
                       result ==
                           {JDict([name |-> JStr(n),
                                   command |-> scripts.kv[n],
                                   runCommand |-> JStr(run_prefix[pm_name] \o <<" ">> \o n),
                                   category |-> JStr(categorize_script(n, scripts.kv[n].s))]) :
                               n \in DOMAIN scripts.kv}
                   IN Ok(JList(sort_by_key(result)))

----------------------------------------------------------------------------
(* Default branch detection.  What a git command does is an outcome of
   subprocess.run: the child exits with a return code and its output, the
   child cannot be started (OSError), it is killed after ten seconds
   (TimeoutExpired), or its output is not text in the locale's encoding. *)

Exited(returncode, stdout) ==
    [kind |-> "exit", returncode |-> returncode, stdout |-> stdout, decodes |-> TRUE]
ExitedUndecodable == [kind |-> "exit", returncode |-> 0, stdout |-> << >>, decodes |-> FALSE]
NotStarted == [kind |-> "OSError", returncode |-> -1, stdout |-> << >>, decodes |-> TRUE]
TimedOut == [kind |-> "TimeoutExpired", returncode |-> -1, stdout |-> << >>, decodes |-> TRUE]

Whitespace == {" ", "\n", "\t", "\r"}

\* str.strip() on a sequence of characters
RECURSIVE lstrip_chars(_)
lstrip_chars(text) ==
    IF text # << >> /\ Head(text) \in Whitespace THEN lstrip_chars(Tail(text)) ELSE text

RECURSIVE rstrip_chars(_)
rstrip_chars(text) ==
    IF text # << >> /\ text[Len(text)] \in Whitespace
    THEN rstrip_chars(SubSeq(text, 1, Len(text) - 1))
    ELSE text

strip_chars(text) == rstrip_chars(lstrip_chars(text))

\* run_git(args, cwd), outcome being what subprocess.run met: the stripped
\* output, None for a failure it catches; text=True decodes the output
\* inside subprocess.run, and UnicodeDecodeError is none of the exceptions caught
run_git(outcome) ==
    IF outcome.kind \in {"OSError", "TimeoutExpired"} THEN Ok(JNull)
    ELSE IF ~outcome.decodes THEN Raise("UnicodeDecodeError")
    ELSE IF outcome.returncode # 0 THEN Ok(JNull)
    ELSE Ok(JStr(strip_chars(outcome.stdout)))

\* output.split("/", 1)
split_once(text) ==
    IF \E i \in 1..Len(text) : text[i] = "/"
    THEN LET i == CHOOSE i \in 1..Len(text) :
                      text[i] = "/" /\ \A j \in 1..(i - 1) : text[j] # "/"
         IN <<SubSeq(text, 1, i - 1), SubSeq(text, i + 1, Len(text))>>
    ELSE <<text>>

\* detect_default_branch(repo_path); git holds the outcome of each of the
\* three git commands in this repository
detect_default_branch(git) ==
    LET head_output == run_git(git.head) IN
    IF head_output.exc # "" THEN head_output
    ELSE IF head_output.val # JNull /\ head_output.val.s # << >>
    THEN LET parts == split_once(head_output.val.s) IN
         IF Len(parts) = 2 THEN Ok(JStr(parts[2])) ELSE head_output
    ELSE IF run_git(git.main).exc # "" THEN run_git(git.main)
    ELSE IF run_git(git.main).val # JNull THEN Ok(JStr(<<"m", "a", "i", "n">>))
    ELSE IF run_git(git.master).exc # "" THEN run_git(git.master)
    ELSE IF run_git(git.master).val # JNull THEN Ok(JStr(<<"m", "a", "s", "t", "e", "r">>))
    ELSE Ok(JNull)

----------------------------------------------------------------------------
(* Tool handlers *)

MissingRepoPath == [msg |-> "Missing required parameter: repoPath"]
NotAbsolute == [msg |-> "repoPath must be an absolute path"]
NoGitDir(repo_path) == [msg |-> "No .git directory found at {}", path |-> repo_path]

\* (arguments or {})
OrEmptyDict(arguments) == IF Truthy(arguments) THEN arguments ELSE EmptyDict

\* handle_analyze_project; repo is what the analysis finds in the working tree
handle_analyze_project(arguments, files, repo) ==
    LET args == OrEmptyDict(arguments) IN
    IF ~IsDict(args) THEN Raise("AttributeError")
    ELSE LET repo_path == Get(args, "repoPath", JNull) IN
         IF ~Truthy(repo_path) THEN Ok(error_result(MissingRepoPath))
         ELSE IF repo_path.t # "str" THEN Raise("AttributeError")
         ELSE IF ~startswithSlash(repo_path.s) THEN Ok(error_result(NotAbsolute))
         ELSE IF ~HasGitDir(repo_path.s) THEN Ok(error_result(NoGitDir(repo_path)))
         ELSE LET pm == detect_package_manager(repo.root)
                  scripts == parse_scripts(repo.pkg, pm)
                  default_branch == detect_default_branch(repo.git)
                  existing_config == read_config(files, repo_path.s)
              IN
              IF scripts.exc # "" THEN scripts
              ELSE IF default_branch.exc # "" THEN default_branch
              ELSE IF existing_config.exc # "" THEN existing_config
              ELSE Ok(text_result([msg |-> "analysis",
                                   packageManager |-> pm,
                                   scripts |-> scripts.val,
                                   defaultBranch |-> default_branch.val,
                                   existingConfig |-> existing_config.val]))

\* handle_get_project_config
handle_get_project_config(arguments, files) ==
    LET args == OrEmptyDict(arguments) IN
    IF ~IsDict(args) THEN Raise("AttributeError")
    ELSE LET repo_path == Get(args, "repoPath", JNull) IN
         IF ~Truthy(repo_path) THEN Ok(error_result(MissingRepoPath))
         ELSE IF repo_path.t # "str" THEN Raise("AttributeError")
         ELSE IF ~startswithSlash(repo_path.s) THEN Ok(error_result(NotAbsolute))
         ELSE LET config == read_config(files, repo_path.s) IN
              IF config.exc # "" THEN config
              ELSE IF config.val = JNull
              THEN Ok(text_result([msg |-> "No .wtmux/config.json found at {}",
                                   path |-> repo_path]))
              ELSE Ok(text_result([msg |-> "config", config |-> config.val]))

MinPort == 1
MaxPort == 65535

\* the port test of the run-configuration loop
InvalidPort(port) ==
    ~IsInstanceInt(port) \/ AsNumber(port) < MinPort \/ AsNumber(port) > MaxPort

\* the loop over enumerate(args.get("runConfigurations", [])): items from
\* index i on, run_configs collected so far; ends in the list or in the error
\* result the handler returns
RECURSIVE RunConfigLoop(_, _, _)
RunConfigLoop(items, i, run_configs) ==
    IF i >= Len(items) THEN [stop |-> FALSE, run_configs |-> run_configs]
    ELSE LET rc == items[i + 1] IN
         IF ~IsDict(rc) THEN RunConfigLoop(items, i + 1, run_configs)
         ELSE LET name == Get(rc, "name", JNull)
                  command == Get(rc, "command", JNull)
                  port == Get(rc, "port", JNull)
              IN IF ~Truthy(name) \/ ~Truthy(command)
                 THEN RunConfigLoop(items, i + 1, run_configs)
                 ELSE IF port # JNull /\ InvalidPort(port)
                 THEN [stop |-> TRUE,
                       result |-> error_result([msg |-> "Invalid port {} for '{}'. Must be 1-65535.",
                                                port |-> port, name |-> name])]
                 ELSE RunConfigLoop(items, i + 1,
                        Append(run_configs,
                               JDict([name |-> name,
                                      command |-> command,
                                      port |-> port,
                                      autoStart |-> Get(rc, "autoStart", JBool(FALSE)),
                                      order |-> Get(rc, "order", JInt(i))])))

\* the optional keys stored whether or not they are None
OptionalKeysUnguarded(terminal_start_command, project_name, default_branch, worktree_base_path) ==
    [terminalStartCommand |-> terminal_start_command,
     projectName |-> project_name,
     defaultBranch |-> default_branch,
     worktreeBasePath |-> worktree_base_path]

\* the optional top-level keys of the config dict
OptionalKeys(terminal_start_command, project_name, default_branch, worktree_base_path) ==
    LET given == [terminalStartCommand |-> terminal_start_command,
                  projectName |-> project_name,
                  defaultBranch |-> default_branch,
                  worktreeBasePath |-> worktree_base_path]
    IN [k \in {k \in DOMAIN given : given[k] # JNull} |-> given[k]]

\* the explicit command taking precedence over startClaudeInTerminals
ExplicitCommandFirst(args) ==
    IF Truthy(Get(args, "terminalStartCommand", JNull))
    THEN args.kv["terminalStartCommand"]
    ELSE IF Truthy(Get(args, "startClaudeInTerminals", JNull)) THEN JStr("claude")
         ELSE JNull

\* terminal_start_command of handle_configure_project
TerminalStartCommand(args) ==
    IF Truthy(Get(args, "startClaudeInTerminals", JNull)) THEN JStr("claude")
    ELSE IF Truthy(Get(args, "terminalStartCommand", JNull))
         THEN args.kv["terminalStartCommand"]
         ELSE JNull

\* handle_configure_project up to the config dict: raises, returns an error
\* result, or goes on to write_config with the config it built
ConfigurePrepare(arguments) ==
    LET args == OrEmptyDict(arguments) IN
    IF ~IsDict(args) THEN Raise("AttributeError")
    ELSE LET repo_path == Get(args, "repoPath", JNull) IN
         IF ~Truthy(repo_path) THEN Ok([ret |-> TRUE, result |-> error_result(MissingRepoPath)])
         ELSE IF repo_path.t # "str" THEN Raise("AttributeError")
         ELSE IF ~startswithSlash(repo_path.s)
         THEN Ok([ret |-> TRUE, result |-> error_result(NotAbsolute)])
         ELSE IF ~HasGitDir(repo_path.s)
         THEN Ok([ret |-> TRUE, result |-> error_result(NoGitDir(repo_path))])
         ELSE LET env_files == Get(args, "envFilesToCopy", EmptyList)
                  setup_commands == Get(args, "setupCommands", EmptyList)
                  terminal_start_command == TerminalStartCommand(args)
                  rcs == Get(args, "runConfigurations", EmptyList)
              IN \* enumerate() of a value that is no list: None and numbers are
                 \* not iterable; a str or dict iterates over strings, which
                 \* the loop skips
                 IF rcs.t \in {"null", "int", "bool"} THEN Raise("TypeError")
                 ELSE LET loop == RunConfigLoop(IF rcs.t = "list" THEN rcs.xs ELSE << >>,
                                                0, << >>)
                      IN IF loop.stop THEN Ok([ret |-> TRUE, result |-> loop.result])
                         ELSE Ok([ret |-> FALSE,
                                  repo_path |-> repo_path.s,
                                  env_files |-> env_files,
                                  setup_commands |-> setup_commands,
                                  run_configs |-> loop.run_configs,
                                  terminal_start_command |-> terminal_start_command,
                                  config |-> JDict(
                                      [envFilesToCopy |-> env_files,
                                       setupCommands |-> setup_commands,
                                       runConfigurations |-> JList(loop.run_configs)]
                                      @@ OptionalKeys(terminal_start_command,
                                                      Get(args, "projectName", JNull),
                                                      Get(args, "defaultBranch", JNull),
                                                      Get(args, "worktreeBasePath", JNull)))])

\* the summary handle_configure_project builds after the write: ", ".join and
\* len raise TypeError on values that are not what the schema promises
ConfigureSummary(prep, gitignore_added) ==
    LET env == prep.env_files
        setup == prep.setup_commands
    IN IF Truthy(env) /\ (env.t \in {"int", "bool"}
                          \/ (env.t = "list" /\ \E i \in 1..Len(env.xs) : env.xs[i].t # "str"))
       THEN Raise("TypeError")
       ELSE IF Truthy(setup) /\ setup.t \in {"int", "bool"}
       THEN Raise("TypeError")
       ELSE Ok(text_result([msg |-> "Configured {}:",
                            path |-> JStr(prep.repo_path),
                            envFiles |-> env,
                            setupCommands |-> setup,
                            runConfigurations |-> JList(prep.run_configs),
                            terminalStartCommand |-> prep.terminal_start_command,
                            gitignoreAdded |-> gitignore_added]))

WriteFailed == error_result([msg |-> "Failed to write config: {}"])

----------------------------------------------------------------------------
(* JSON-RPC dispatcher *)

TOOL_HANDLERS == {"analyze_project", "configure_project", "get_project_config"}

NoResponse == [id |-> JNull, kind |-> "none", body |-> JNull]
ResultResponse(msg_id, result) == [id |-> msg_id, kind |-> "result", body |-> result]
\* the unknown method answered with a result object
ResultInsteadOfError(msg_id, code, method) ==
    [id |-> msg_id, kind |-> "result", body |-> [code |-> code, method |-> method]]

ErrorResponse(msg_id, code, method) ==
    [id |-> msg_id, kind |-> "error", body |-> [code |-> code, method |-> method]]

MethodNotFound == -32601

\* the tool whose handler handle_request calls for msg, "" when it calls none
HandlerOf(msg) ==
    IF /\ IsDict(msg)
       /\ Get(msg, "method", JStr("")) = JStr("tools/call")
       /\ IsDict(Get(msg, "params", EmptyDict))
    THEN LET tool_name == Get(Get(msg, "params", EmptyDict), "name", JStr("")) IN
         IF tool_name.t = "str" /\ tool_name.s \in TOOL_HANDLERS THEN tool_name.s ELSE ""
    ELSE ""

ArgumentsOf(msg) == Get(Get(msg, "params", EmptyDict), "arguments", EmptyDict)

\* handle_request(msg); call is what the tool handler does when one is called
handle_request(msg, call) ==
    IF ~IsDict(msg) THEN Raise("AttributeError")
    ELSE LET method == Get(msg, "method", JStr(""))
             params == Get(msg, "params", EmptyDict)
             msg_id == Get(msg, "id", JNull)
         IN CASE method = JStr("initialize") ->
                     Ok(ResultResponse(msg_id, [protocolVersion |-> "2024-11-05"]))
              [] method = JStr("notifications/initialized") -> Ok(NoResponse)
              [] method = JStr("tools/list") ->
                     Ok(ResultResponse(msg_id, [tools |-> TOOL_HANDLERS]))
              [] method = JStr("tools/call") ->
                     IF ~IsDict(params) THEN Raise("AttributeError")
                     ELSE LET tool_name == Get(params, "name", JStr("")) IN
                          \* a list or dict is not hashable as a key of TOOL_HANDLERS
                          IF tool_name.t \in {"list", "dict"} THEN Raise("TypeError")
                          ELSE IF tool_name.t = "str" /\ tool_name.s \in TOOL_HANDLERS
                          THEN (IF call.exc # "" THEN call
                                ELSE Ok(ResultResponse(msg_id, call.val)))
                          ELSE Ok(ResultResponse(msg_id,
                                     error_result([msg |-> "Unknown tool: {}",
                                                   name |-> tool_name])))
              [] method = JStr("ping") -> Ok(ResultResponse(msg_id, [empty |-> TRUE]))
              [] OTHER ->
                     IF msg_id # JNull
                     THEN Ok(ErrorResponse(msg_id, MethodNotFound, method))
                     ELSE Ok(NoResponse)

----------------------------------------------------------------------------
(* Inputs: the lines a client may send, the working trees an analysis may find *)

BlankLine == [kind |-> "blank", value |-> JNull]
MalformedLine == [kind |-> "malformed", value |-> JNull]
JSONLine(v) == [kind |-> "json", value |-> v]

Ids == {JInt(1), JInt(2)}

Request(method, id) == JDict([method |-> JStr(method), id |-> id])
Notification(method) == JDict([method |-> JStr(method)])
ToolCall(id, name, arguments) ==
    JDict([method |-> JStr("tools/call"), id |-> id,
           params |-> JDict([name |-> name, arguments |-> arguments])])
ToolNotification(name, arguments) ==
    JDict([method |-> JStr("tools/call"),
           params |-> JDict([name |-> name, arguments |-> arguments])])

Methods == {"initialize", "notifications/initialized", "tools/list", "tools/call",
            "ping", "resources/list"}

RepoPathArgs(p) == JDict([repoPath |-> p])

\* run-configuration entries
WebRC == JDict([name |-> JStr("web"), command |-> JStr("npm run dev")])
ApiRC == JDict([name |-> JStr("api"), command |-> JStr("npm run api"),
                port |-> JInt(3000), autoStart |-> JBool(TRUE), order |-> JInt(5)])
PortRC(port) == JDict([name |-> JStr("db"), command |-> JStr("run-db"), port |-> port])
NoNameRC == JDict([command |-> JStr("make")])
NoCommandRC == JDict([name |-> JStr("docs"), port |-> JInt(70000)])
EmptyNameRC == JDict([name |-> JStr(""), command |-> JStr("make"), port |-> JInt(0)])
NotADictRC == JStr("npm start")

PortValues == {JNull, JInt(0), JInt(65535), JInt(65536), JInt(70000),
               JBool(TRUE), JBool(FALSE), JStr("8080")}

RunConfigEntries ==
    {WebRC, ApiRC, NoNameRC, NoCommandRC, EmptyNameRC, NotADictRC}
        \cup {PortRC(port) : port \in PortValues}

RunConfigLists ==
    {<< >>} \cup {<<e>> : e \in RunConfigEntries}
            \cup {<<WebRC, e>> : e \in RunConfigEntries \ {WebRC}}

\* arguments of configure_project calls on the repository
ConfigureOptionArgs ==
    {JDict(RepoPathArgs(JStr(AbsRepo)).kv @@ o @@ t) :
        o \in {[k \in {} |-> JNull],
               [startClaudeInTerminals |-> JBool(TRUE)],
               [startClaudeInTerminals |-> JBool(FALSE)]},
        t \in {[k \in {} |-> JNull],
               [terminalStartCommand |-> JStr("vim")],
               [terminalStartCommand |-> JStr("")]}}
    \cup
    {JDict(RepoPathArgs(JStr(AbsRepo)).kv @@ [k \in ks |-> JStr(k)]) :
        ks \in SUBSET {"projectName", "defaultBranch", "worktreeBasePath"}}

ConfigureListArgs ==
    {JDict([repoPath |-> JStr(AbsRepo), runConfigurations |-> JList(l)]) :
        l \in RunConfigLists}
    \cup
    {JDict([repoPath |-> JStr(AbsRepo), runConfigurations |-> v]) : v \in {JNull, JInt(3)}}
    \cup
    {JDict([repoPath |-> JStr(AbsRepo),
            envFilesToCopy |-> JList(<<JStr(".env")>>),
            setupCommands |-> JList(<<JStr("npm install")>>)]),
     JDict([repoPath |-> JStr(AbsRepo), envFilesToCopy |-> JList(<<JInt(1)>>)])}

\* repoPath arguments no handler accepts, and arguments that are no object
BadPathArgs ==
    {EmptyDict, RepoPathArgs(JStr("")), RepoPathArgs(JStr(RelRepo)),
     RepoPathArgs(JStr(AbsPlain)), RepoPathArgs(JInt(5)),
     JNull, JList(<<JStr(AbsRepo)>>)}

ConfigureArgs == ConfigureOptionArgs \cup ConfigureListArgs \cup BadPathArgs
ReadArgs == BadPathArgs \cup {RepoPathArgs(JStr(AbsRepo))}

\* what the git commands of detect_default_branch meet in a repository
CommitId == <<"4", "b", "8", "2", "5", "d", "c", "\n">>
NoSuchRef == Exited(128, << >>)
HeadOutcomes ==
    {Exited(0, <<"o", "r", "i", "g", "i", "n", "/", "m", "a", "i", "n", "\n">>), Exited(0, <<"o", "r", "i", "g", "i", "n", "/", "f", "e", "a", "t", "u", "r", "e", "/", "x", "\n">>),
     Exited(0, <<"t", "r", "u", "n", "k", "\n">>), NoSuchRef, NotStarted, TimedOut, ExitedUndecodable}
VerifyOutcomes == {Exited(0, CommitId), NoSuchRef, NotStarted, TimedOut}
GitStates == [head : HeadOutcomes, main : VerifyOutcomes, master : VerifyOutcomes]

OriginMain == [head |-> Exited(0, <<"o", "r", "i", "g", "i", "n", "/", "m", "a", "i", "n", "\n">>), main |-> Exited(0, CommitId), master |-> NoSuchRef]
LocalMaster == [head |-> NoSuchRef, main |-> NoSuchRef, master |-> Exited(0, CommitId)]
NoBranches == [head |-> NoSuchRef, main |-> NoSuchRef, master |-> NoSuchRef]
NoGitProgram == [head |-> NotStarted, main |-> NotStarted, master |-> NotStarted]

\* what analyze_project finds in the working tree: the regular files at its
\* root and the content of package.json
RepoViews ==
    {[root |-> {}, pkg |-> NoFile, git |-> NoBranches],
     [root |-> {"Cargo.toml"}, pkg |-> NoFile, git |-> OriginMain],
     [root |-> {"package.json"}, pkg |-> File(<<Garbage>>), git |-> OriginMain],
     [root |-> {"package.json"}, pkg |-> File(<<Undecodable>>), git |-> LocalMaster],
     [root |-> {"package.json"}, pkg |-> File(Serialize(JList(<< >>))), git |-> OriginMain],
     [root |-> {"package.json"}, pkg |-> File(Serialize(JDict([name |-> JStr("app")]))),
      git |-> NoGitProgram],
     [root |-> {"package.json", "Cargo.toml"},
      pkg |-> File(Serialize(JDict([scripts |-> JDict(<<"d", "e", "v">> :> JStr(<<"v", "i", "t", "e">>))]))),
      git |-> LocalMaster],
     [root |-> {"package.json", "yarn.lock"},
      pkg |-> File(Serialize(JDict([scripts |-> JDict(<<"d", "e", "v">> :> JInt(1))]))),
      git |-> OriginMain]}
NoRepoView == [root |-> {}, pkg |-> NoFile, git |-> NoBranches]

\* the lines of the server specification
ProtocolLines ==
    {BlankLine, MalformedLine, JSONLine(JList(<< >>)), JSONLine(JInt(7)),
     JSONLine(JDict([id |-> JInt(1)]))}
    \cup {JSONLine(Request(m, id)) : m \in Methods, id \in Ids}
    \cup {JSONLine(Notification(m)) : m \in Methods}
    \cup {JSONLine(JDict([method |-> JStr("tools/call"), id |-> JInt(1),
                          params |-> JList(<< >>)]))}

\* the tool calls of the server specification: one of each outcome
ToolLines ==
    {JSONLine(ToolCall(JInt(1), JStr(n), a)) :
        n \in {"analyze_project", "get_project_config"},
        a \in {RepoPathArgs(JStr(AbsRepo)), RepoPathArgs(JStr(RelRepo)), RepoPathArgs(JInt(5))}}
    \cup {JSONLine(ToolCall(JInt(1), JStr("configure_project"), a)) :
             a \in {RepoPathArgs(JStr(AbsRepo)), RepoPathArgs(JStr(AbsPlain)),
                    JList(<<JStr(AbsRepo)>>),
                    JDict([repoPath |-> JStr(AbsRepo),
                           runConfigurations |-> JList(<<PortRC(JInt(70000))>>)]),
                    JDict([repoPath |-> JStr(AbsRepo),
                           envFilesToCopy |-> JList(<<JInt(1)>>)])}}
    \cup {JSONLine(ToolCall(JInt(1), n, EmptyDict)) :
             n \in {JStr("delete_project"), JList(<< >>)}}
    \cup {JSONLine(ToolNotification(JStr("configure_project"),
                                    RepoPathArgs(JStr(AbsRepo))))}

Lines == ProtocolLines \cup ToolLines

\* the tool calls of the config-store specification
StoreLines ==
    {JSONLine(ToolCall(JInt(1), JStr(n), a)) :
        n \in {"analyze_project", "get_project_config"}, a \in ReadArgs}
    \cup {JSONLine(ToolCall(JInt(1), JStr("configure_project"), a)) : a \in ConfigureArgs}

----------------------------------------------------------------------------
(* Initial files *)

OldConfig ==
    JDict([envFilesToCopy |-> EmptyList, setupCommands |-> EmptyList,
           runConfigurations |-> EmptyList,
           projectName |-> JStr("old"), terminalStartCommand |-> JStr("tmux"),
           legacy |-> JBool(TRUE)])

NoFiles == [dir |-> FALSE, config |-> NoFile, tmp |-> NoFile, gitignore |-> NoFile]

InitConfigs == {[dir |-> FALSE, config |-> NoFile],
                [dir |-> TRUE, config |-> File(Serialize(OldConfig))]}

InitIgnores == {NoFile, File(<<"node_modules">>), File(<<".wtmux/", "\n">>)}

----------------------------------------------------------------------------
(* The server process *)

WriteSteps == {"makedirs", "open", "write", "replace", "gitignore"}

\* the call of handle_configure_project that is running
prep == ConfigurePrepare(ArgumentsOf(cur)).val

\* an id-carrying request
CarriesId(line) ==
    line.kind = "json" /\ IsDict(line.value) /\ Get(line.value, "id", JNull) # JNull

\* main: what the loop does with the outcome of handle_request: an exception
\* nobody catches ends the process, a response is written by send_response
Deliver(msg, outcome) ==
    /\ cur' = msg
    /\ written' = 0
    /\ IF outcome.exc # ""
       THEN /\ pc' = "crashed"
            /\ resp' = NoResponse
            /\ UNCHANGED output
       ELSE /\ pc' = "idle"
            /\ resp' = outcome.val
            /\ output' = IF outcome.val # NoResponse
                         THEN Append(output, [id |-> outcome.val.id, kind |-> outcome.val.kind])
                         ELSE output

\* the handler's outcome for the calls that return without write_config
HandlerOutcome(msg, repo) ==
    CASE HandlerOf(msg) = "analyze_project" ->
             handle_analyze_project(ArgumentsOf(msg), fs, repo)
      [] HandlerOf(msg) = "get_project_config" ->
             handle_get_project_config(ArgumentsOf(msg), fs)
      [] HandlerOf(msg) = "configure_project" ->
             LET p == ConfigurePrepare(ArgumentsOf(msg)) IN
             IF p.exc # "" THEN p ELSE Ok(p.val.result)
      [] OTHER -> Ok(JNull)

ReachesWrite(msg) ==
    /\ HandlerOf(msg) = "configure_project"
    /\ ConfigurePrepare(ArgumentsOf(msg)).exc = ""
    /\ ~ConfigurePrepare(ArgumentsOf(msg)).val.ret

\* open(path, "a"): creates the file when it is absent
open_append(files, repo_path) ==
    [files EXCEPT ![repo_path].config = IF @.exists THEN @ ELSE File(<< >>)]

\* open(config_path, "r"): neither creates nor changes the file
open_r(files, repo_path) == files

\* the files after a call of analyze_project or get_project_config that gets
\* as far as read_config; no other statement of these handlers opens a file
\* of the config store
AfterReads(msg, files) ==
    IF /\ HandlerOf(msg) \in {"analyze_project", "get_project_config"}
       /\ IsDict(OrEmptyDict(ArgumentsOf(msg)))
       /\ Get(OrEmptyDict(ArgumentsOf(msg)), "repoPath", JNull).t = "str"
       /\ startswithSlash(Get(OrEmptyDict(ArgumentsOf(msg)), "repoPath", JNull).s)
       /\ (HandlerOf(msg) = "analyze_project" =>
              HasGitDir(Get(OrEmptyDict(ArgumentsOf(msg)), "repoPath", JNull).s))
    THEN open_r(files, Get(OrEmptyDict(ArgumentsOf(msg)), "repoPath", JNull).s)
    ELSE files

\* main reads one line: skips it, or handles the message up to its response,
\* or, for a configure_project call that passed validation, up to write_config
ReadLine(L, max) ==
    /\ pc = "idle"
    /\ nlines < max
    /\ nlines' = nlines + 1
    /\ \E line \in L :
         /\ requested' = IF CarriesId(line)
                         THEN Append(requested, line.value.kv["id"])
                         ELSE requested
         /\ IF line.kind # "json"
            THEN UNCHANGED <<fs, pc, cur, before, written, resp, output>>
            ELSE IF ReachesWrite(line.value)
            THEN /\ pc' = "makedirs"
                 /\ cur' = line.value
                 /\ before' = fs
                 /\ written' = 0
                 /\ resp' = NoResponse
                 /\ UNCHANGED <<fs, output>>
            ELSE /\ \E repo \in IF HandlerOf(line.value) = "analyze_project"
                                THEN RepoViews ELSE {NoRepoView} :
                        Deliver(line.value, handle_request(line.value,
                                                           HandlerOutcome(line.value, repo)))
                 /\ before' = fs
                 /\ fs' = AfterReads(line.value, fs)
    /\ UNCHANGED <<ignoreLog, tree, found, procs>>

\* os.makedirs(dir_path, exist_ok=True)
makedirs(files, repo_path) == [files EXCEPT ![repo_path].dir = TRUE]

\* open(config_path, "w"): writing the config file in place
open_in_place(files, repo_path) == [files EXCEPT ![repo_path].config = File(<< >>)]

\* open(tmp_path, "w"): creates the temporary file or truncates it
open_tmp(files, repo_path) == [files EXCEPT ![repo_path].tmp = File(<< >>)]

\* f.write on the open temporary file
write_tmp(files, repo_path, piece) ==
    [files EXCEPT ![repo_path].tmp = File(@.data \o <<piece>>)]

\* a byte range nothing was written to (a write beyond the end of the file)
Hole == [part |-> -3, of |-> JNull]

\* f.write through an open file whose position is offset: the piece lands at
\* the position, over what is there or beyond the end
write_at(data, offset, piece) ==
    IF offset < Len(data) THEN [data EXCEPT ![offset + 1] = piece]
    ELSE data \o [i \in 1..(offset - Len(data)) |-> Hole] \o <<piece>>

\* os.unlink(tmp_path): the temporary file is dropped, config.json stays
unlink_tmp(files, repo_path) == [files EXCEPT ![repo_path].tmp = NoFile]

\* os.replace(tmp_path, config_path): the name config.json now holds the
\* temporary file, whose own name is gone
os_replace(files, repo_path) ==
    [files EXCEPT ![repo_path].config = files[repo_path].tmp,
                  ![repo_path].tmp = NoFile]

\* write_config: os.makedirs
Makedirs ==
    /\ pc = "makedirs"
    /\ fs' = makedirs(fs, prep.repo_path)
    /\ pc' = "open"
    /\ UNCHANGED <<cur, before, written, resp, requested, output, nlines, ignoreLog, tree, found, procs>>

\* write_config: the with statement opens the temporary file
OpenTmp ==
    /\ pc = "open"
    /\ fs' = open_tmp(fs, prep.repo_path)
    /\ written' = 0
    /\ pc' = "write"
    /\ UNCHANGED <<cur, before, resp, requested, output, nlines, ignoreLog, tree, found, procs>>

\* write_config: json.dump and f.write("\n"), one piece of the text at a time;
\* the with block closes the file after the last
WriteChunk ==
    /\ pc = "write"
    /\ LET text == Serialize(prep.config) IN
         /\ fs' = write_tmp(fs, prep.repo_path, text[written + 1])
         /\ written' = written + 1
         /\ pc' = IF written + 1 = Len(text) THEN "replace" ELSE "write"
    /\ UNCHANGED <<cur, before, resp, requested, output, nlines, ignoreLog, tree, found, procs>>

\* write_config: os.replace(tmp_path, config_path)
Replace ==
    /\ pc = "replace"
    /\ fs' = os_replace(fs, prep.repo_path)
    /\ pc' = "gitignore"
    /\ UNCHANGED <<cur, before, written, resp, requested, output, nlines, ignoreLog, tree, found, procs>>

\* handle_configure_project after write_config: ensure_gitignore, the summary,
\* and the response main sends
FinishConfigure ==
    /\ pc = "gitignore"
    /\ LET g == ensure_gitignore(fs, prep.repo_path) IN
         /\ fs' = g.files
         /\ Deliver(cur, handle_request(cur, ConfigureSummary(prep, g.added)))
    /\ UNCHANGED <<before, requested, nlines, ignoreLog, tree, found, procs>>

\* an OSError in write_config or ensure_gitignore, caught by the handler's
\* except clause
WriteFails ==
    /\ pc \in WriteSteps
    /\ Deliver(cur, handle_request(cur, Ok(WriteFailed)))
    /\ UNCHANGED <<fs, before, requested, nlines, ignoreLog, tree, found, procs>>

\* the process is terminated from outside while it serves a call
Kill ==
    /\ pc \in WriteSteps
    /\ pc' = "killed"
    /\ UNCHANGED <<fs, cur, before, written, resp, requested, output, nlines, ignoreLog, tree, found, procs>>

Init ==
    /\ \E c \in InitConfigs, g \in InitIgnores :
         fs = [p \in Paths |-> IF p = AbsRepo
                               THEN [dir |-> c.dir, config |-> c.config,
                                     tmp |-> NoFile, gitignore |-> g]
                               ELSE NoFiles]
    /\ pc = "idle"
    /\ cur = JNull
    /\ before = fs
    /\ written = 0
    /\ resp = NoResponse
    /\ requested = << >>
    /\ output = << >>
    /\ nlines = 0
    /\ ignoreLog = << >>
    /\ tree = {}
    /\ found = << >>
    /\ procs = << >>

Next ==
    \/ ReadLine(Lines, MaxLines)
    \/ Makedirs
    \/ OpenTmp
    \/ WriteChunk
    \/ Replace
    \/ FinishConfigure
    \/ WriteFails
    \/ Kill

Spec == Init /\ [][Next]_vars

\* the same server, fed the tool calls that exercise the config store, with
\* no fault from outside
NextStore ==
    \/ ReadLine(StoreLines, MaxCalls)
    \/ Makedirs
    \/ OpenTmp
    \/ WriteChunk
    \/ Replace
    \/ FinishConfigure

SpecStore == Init /\ [][NextStore]_vars

----------------------------------------------------------------------------
(* Two server processes, each serving one configure_project call on the same
   repository: they share the files and nothing else.  A process keeps its
   open file when the file is truncated or renamed by the other. *)

Procs == {1, 2}

TwoArgs ==
    <<JDict([repoPath |-> JStr(AbsRepo), projectName |-> JStr("first")]),
      JDict([repoPath |-> JStr(AbsRepo), projectName |-> JStr("second"),
             runConfigurations |-> JList(<<WebRC>>)])>>

TwoPrep(p) == ConfigurePrepare(TwoArgs[p]).val

\* the name under which the file a process has open is found: "tmp",
\* "config" once it was renamed, "unlinked" once another file took that name
\* too, "none" when the process has no file open
AfterRename(at) ==
    CASE at = "tmp" -> "config"
      [] at = "config" -> "unlinked"
      [] OTHER -> at

InitTwo ==
    /\ \E c \in InitConfigs, g \in InitIgnores :
         fs = [p \in Paths |-> IF p = AbsRepo
                               THEN [dir |-> c.dir, config |-> c.config,
                                     tmp |-> NoFile, gitignore |-> g]
                               ELSE NoFiles]
    /\ procs = [p \in Procs |-> [pc |-> "makedirs", at |-> "none", offset |-> 0,
                                  seen |-> NoFile, result |-> JNull]]
    /\ pc = "two"
    /\ cur = JNull
    /\ before = fs
    /\ written = 0
    /\ resp = NoResponse
    /\ requested = << >>
    /\ output = << >>
    /\ nlines = 0
    /\ ignoreLog = << >>
    /\ tree = {}
    /\ found = << >>

TwoUnchanged ==
    UNCHANGED <<pc, cur, before, written, resp, requested, output, nlines, ignoreLog, tree, found>>

\* write_config: os.makedirs
TwoMakedirs(p) ==
    /\ procs[p].pc = "makedirs"
    /\ fs' = makedirs(fs, AbsRepo)
    /\ procs' = [procs EXCEPT ![p].pc = "open"]
    /\ TwoUnchanged

\* write_config: open(tmp_path, "w")
TwoOpenTmp(p) ==
    /\ procs[p].pc = "open"
    /\ fs' = open_tmp(fs, AbsRepo)
    /\ procs' = [procs EXCEPT ![p].pc = "write", ![p].at = "tmp", ![p].offset = 0]
    /\ TwoUnchanged

\* write_config: json.dump and f.write("\n"), one piece at a time through
\* the open file; the with block closes the file after the last
TwoWriteChunk(p) ==
    /\ procs[p].pc = "write"
    /\ LET text == Serialize(TwoPrep(p).config)
           piece == text[procs[p].offset + 1]
           last == procs[p].offset + 1 = Len(text)
       IN /\ fs' = CASE procs[p].at = "tmp" ->
                          [fs EXCEPT ![AbsRepo].tmp =
                              File(write_at(@.data, procs[p].offset, piece))]
                      [] procs[p].at = "config" ->
                          [fs EXCEPT ![AbsRepo].config =
                              File(write_at(@.data, procs[p].offset, piece))]
                      [] OTHER -> fs
          /\ procs' = [procs EXCEPT ![p].offset = @ + 1,
                                    ![p].pc = IF last THEN "replace" ELSE "write",
                                    ![p].at = IF last THEN "none" ELSE @]
    /\ TwoUnchanged

\* write_config: os.replace(tmp_path, config_path); FileNotFoundError, an
\* OSError the handler turns into error content, when the temporary name is gone
TwoReplace(p) ==
    /\ procs[p].pc = "replace"
    /\ IF fs[AbsRepo].tmp.exists
       THEN /\ fs' = os_replace(fs, AbsRepo)
            /\ procs' = [q \in Procs |->
                            IF q = p THEN [procs[q] EXCEPT !.pc = "gitread"]
                            ELSE [procs[q] EXCEPT !.at = AfterRename(@)]]
       ELSE /\ procs' = [procs EXCEPT ![p].pc = "done", ![p].result = WriteFailed]
            /\ UNCHANGED fs
    /\ TwoUnchanged

\* ensure_gitignore: f.read()
TwoReadGitignore(p) ==
    /\ procs[p].pc = "gitread"
    /\ procs' = [procs EXCEPT ![p].pc = "gitwrite", ![p].seen = fs[AbsRepo].gitignore]
    /\ UNCHANGED fs
    /\ TwoUnchanged

\* ensure_gitignore on the content read, and the handler's summary
TwoFinishConfigure(p) ==
    /\ procs[p].pc = "gitwrite"
    /\ LET g == ensure_gitignore([fs EXCEPT ![AbsRepo].gitignore = procs[p].seen], AbsRepo) IN
         /\ fs' = IF g.added
                   THEN [fs EXCEPT ![AbsRepo].gitignore = g.files[AbsRepo].gitignore]
                   ELSE fs
         /\ procs' = [procs EXCEPT ![p].pc = "done",
                                   ![p].result = ConfigureSummary(TwoPrep(p), g.added).val]
    /\ TwoUnchanged

NextTwo ==
    \E p \in Procs :
        \/ TwoMakedirs(p)
        \/ TwoOpenTmp(p)
        \/ TwoWriteChunk(p)
        \/ TwoReplace(p)
        \/ TwoReadGitignore(p)
        \/ TwoFinishConfigure(p)

SpecTwo == InitTwo /\ [][NextTwo]_vars

----------------------------------------------------------------------------
(* The read-only tools on their own: get_project_config and analyze_project
   called on repositories whose config file is in any condition *)

StoredConfigs ==
    {[dir |-> FALSE, config |-> NoFile],
     [dir |-> TRUE, config |-> NoFile],
     [dir |-> TRUE, config |-> File(<<Garbage>>)],
     [dir |-> TRUE, config |-> File(<<Undecodable>>)],
     [dir |-> TRUE, config |-> File(SubSeq(Serialize(OldConfig), 1, 1))],
     [dir |-> TRUE, config |-> File(Serialize(OldConfig))],
     [dir |-> TRUE, config |-> File(Serialize(JNull))],
     [dir |-> TRUE, config |-> File(Serialize(EmptyList))]}

ReadLines ==
    {JSONLine(ToolCall(id, JStr(n), a)) :
        id \in Ids, n \in {"analyze_project", "get_project_config"}, a \in ReadArgs}

InitRead ==
    /\ \E c \in StoredConfigs, plain \in InitConfigs, g \in InitIgnores :
         fs = [p \in Paths |->
                 IF p = AbsRepo
                 THEN [dir |-> c.dir, config |-> c.config, tmp |-> NoFile, gitignore |-> g]
                 ELSE IF p = AbsPlain
                 THEN [dir |-> plain.dir, config |-> plain.config,
                       tmp |-> NoFile, gitignore |-> NoFile]
                 ELSE NoFiles]
    /\ pc = "idle"
    /\ cur = JNull
    /\ before = fs
    /\ written = 0
    /\ resp = NoResponse
    /\ requested = << >>
    /\ output = << >>
    /\ nlines = 0
    /\ ignoreLog = << >>
    /\ tree = {}
    /\ found = << >>
    /\ procs = << >>

NextRead == ReadLine(ReadLines, MaxReads)

SpecRead == InitRead /\ [][NextRead]_vars

----------------------------------------------------------------------------
(* Package-manager detection on its own: detect_package_manager applied to
   every set of manifests and lock files at the repository root *)

RootNames ==
    {"package.json", "bun.lockb", "bun.lock", "pnpm-lock.yaml", "yarn.lock",
     "Gemfile", "requirements.txt", "pyproject.toml", "composer.json",
     "Cargo.toml", "go.mod", "Package.swift", "Podfile"}

InitDetect ==
    /\ tree \in SUBSET RootNames
    /\ found = << >>
    /\ procs = << >>
    /\ pc = "detect"
    /\ fs = [p \in Paths |-> NoFiles]
    /\ cur = JNull
    /\ before = fs
    /\ written = 0
    /\ resp = NoResponse
    /\ requested = << >>
    /\ output = << >>
    /\ nlines = 0
    /\ ignoreLog = << >>

RunDetect ==
    /\ pc = "detect"
    /\ found' = detect_package_manager(tree)
    /\ pc' = "detected"
    /\ UNCHANGED <<fs, cur, before, written, resp, requested, output, nlines, ignoreLog, tree, procs>>

NextDetect == RunDetect

SpecDetect == InitDetect /\ [][NextDetect]_vars

----------------------------------------------------------------------------
(* Script categorization on its own: categorize_script applied to the script
   names put together from up to MaxNameParts fragments, to every pattern as
   a name in either case, and to a few commands *)

NameFragments ==
    {<<"b", "u", "i", "l", "d">>,
     <<":">>,
     <<"d", "e", "v">>,
     <<"-", "a", "s", "s", "e", "t", "s">>,
     <<"T", "e", "s", "t">>,
     <<"l", "i", "n", "t">>,
     <<"x">>}

RECURSIVE NamesOf(_)
NamesOf(n) ==
    IF n = 0 THEN {<< >>}
    ELSE LET shorter == NamesOf(n - 1) IN
         shorter \cup {a \o f : a \in shorter, f \in NameFragments}

SeqRange(q) == {q[i] : i \in 1..Len(q)}

PatternNames ==
    SeqRange(DEV_NAME_PATTERNS) \cup SeqRange(BUILD_PATTERNS)
        \cup SeqRange(TEST_PATTERNS) \cup SeqRange(LINT_PATTERNS)
        \cup {<<"S", "T", "A", "R", "T">>, <<"C", "o", "m", "p", "i", "l", "e">>, <<"E", "2", "E">>, <<"F", "o", "r", "m", "a", "t">>, <<"l", "a", "t", "e", "s", "t">>, <<"c", "l", "e", "a", "n">>,
              <<"b", "u", "i", "l", "d", ":", "d", "e", "v", "-", "a", "s", "s", "e", "t", "s">>}

ScriptCommands ==
    {<<"t", "s", "c">>,
     <<"V", "I", "T", "E">>,
     <<"n", "e", "x", "t", " ", "d", "e", "v">>,
     <<"n", "e", "x", "t", " ", " ", "d", "e", "v">>,
     <<"j", "e", "s", "t", " ", "-", "-", "w", "a", "t", "c", "h">>,
     <<"n", "p", "x", " ", "N", "o", "d", "e", "m", "o", "n", " ", "x">>}

InitCategorize ==
    /\ tree \in [name : NamesOf(MaxNameParts) \cup PatternNames, command : ScriptCommands]
    /\ found = << >>
    /\ procs = << >>
    /\ pc = "categorize"
    /\ fs = [p \in Paths |-> NoFiles]
    /\ cur = JNull
    /\ before = fs
    /\ written = 0
    /\ resp = NoResponse
    /\ requested = << >>
    /\ output = << >>
    /\ nlines = 0
    /\ ignoreLog = << >>

RunCategorize ==
    /\ pc = "categorize"
    /\ found' = categorize_script(tree.name, tree.command)
    /\ pc' = "categorized"
    /\ UNCHANGED <<fs, cur, before, written, resp, requested, output, nlines, ignoreLog, tree, procs>>

NextCategorize == RunCategorize

SpecCategorize == InitCategorize /\ [][NextCategorize]_vars

----------------------------------------------------------------------------
(* The env-file scan on its own: scan_env_files applied to every working tree
   made of the files below, the deepest MaxTreeDepth directories down *)

RootFiles ==
    {<<<<".", "e", "n", "v">>>>,
     <<<<".", "e", "n", "v", ".", "l", "o", "c", "a", "l">>>>,
     <<<<"c", "o", "n", "f", "i", "g", ".", "e", "n", "v">>>>,
     <<<<"n", "o", "t", "e", "s", ".", "t", "x", "t">>>>}

NestedFiles ==
    {<<<<"n", "o", "d", "e", "_", "m", "o", "d", "u", "l", "e", "s">>, <<".", "e", "n", "v">>>>,
     <<<<".", "c", "o", "n", "f", "i", "g">>, <<".", "e", "n", "v">>>>,
     <<<<"s", "r", "c">>, <<"b", "u", "i", "l", "d">>, <<".", "e", "n", "v">>>>,
     <<<<"s", "r", "c">>, <<"a", "p", "i", ".", "e", "n", "v">>>>,
     <<<<"a", "-", "b">>, <<".", "e", "n", "v">>>>,
     <<<<"p", "r", "o", "d", ".", "e", "n", "v">>, <<"n", "o", "t", "e", "s", ".", "t", "x", "t">>>>}

\* the file .env below n directories named a
DeepFile(n) == [i \in 1..n |-> <<"a">>] \o <<<<".", "e", "n", "v">>>>
DeepFiles == {DeepFile(n) : n \in (MAX_DEPTH - 1)..MaxTreeDepth}

InitScan ==
    /\ tree \in SUBSET (RootFiles \cup NestedFiles \cup DeepFiles)
    /\ found = << >>
    /\ procs = << >>
    /\ pc = "scan"
    /\ fs = [p \in Paths |-> NoFiles]
    /\ cur = JNull
    /\ before = fs
    /\ written = 0
    /\ resp = NoResponse
    /\ requested = << >>
    /\ output = << >>
    /\ nlines = 0
    /\ ignoreLog = << >>

RunScan ==
    /\ pc = "scan"
    /\ found' = scan_env_files(tree)
    /\ pc' = "scanned"
    /\ UNCHANGED <<fs, cur, before, written, resp, requested, output, nlines, ignoreLog, tree, procs>>

NextScan == RunScan

SpecScan == InitScan /\ [][NextScan]_vars

----------------------------------------------------------------------------
(* analyze_project on a repository with no manifest, whatever the git
   commands meet *)

InitBranch ==
    /\ \E git \in GitStates : tree = [root |-> {}, pkg |-> NoFile, git |-> git]
    /\ found = << >>
    /\ procs = << >>
    /\ pc = "analyze"
    /\ fs = [p \in Paths |-> NoFiles]
    /\ cur = JNull
    /\ before = fs
    /\ written = 0
    /\ resp = NoResponse
    /\ requested = << >>
    /\ output = << >>
    /\ nlines = 0
    /\ ignoreLog = << >>

RunAnalyze ==
    /\ pc = "analyze"
    /\ found' = handle_analyze_project(RepoPathArgs(JStr(AbsRepo)), fs, tree)
    /\ pc' = "analyzed"
    /\ UNCHANGED <<fs, cur, before, written, resp, requested, output, nlines, ignoreLog, tree, procs>>

NextBranch == RunAnalyze

SpecBranch == InitBranch /\ [][NextBranch]_vars

----------------------------------------------------------------------------
(* analyze_project on the manifests of a JavaScript project: root is what
   detect_package_manager finds at the repository root, pkg what parse_scripts
   then reads as package.json *)

ScriptPool ==
    {[name |-> <<"d", "e", "v">>, command |-> <<"v", "i", "t", "e">>],
     [name |-> <<"b", "u", "i", "l", "d">>, command |-> <<"t", "s", "c">>],
     [name |-> <<"t", "e", "s", "t">>, command |-> <<"j", "e", "s", "t">>],
     [name |-> <<"l", "i", "n", "t">>, command |-> <<"e", "s", "l", "i", "n", "t", " ", ".">>],
     [name |-> <<"Z", "a", "p">>, command |-> <<"t", "s", "c">>],
     [name |-> <<"c", "l", "e", "a", "n">>, command |-> <<"r", "m", " ", "-", "r", "f", " ", "d", "i", "s", "t">>],
     [name |-> <<"e", "2", "e">>, command |-> <<"p", "l", "a", "y", "w", "r", "i", "g", "h", "t", " ", "t", "e", "s", "t">>]}

\* the "scripts" object of a package.json that holds the scripts of S
ScriptsObject(S) ==
    JDict([n \in {x.name : x \in S} |-> JStr((CHOOSE x \in S : x.name = n).command)])

ScriptRoots ==
    {{}, {"Cargo.toml"}, {"package.json"}, {"package.json", "yarn.lock"},
     {"package.json", "pnpm-lock.yaml"}, {"package.json", "bun.lock", "yarn.lock"}}

ScriptPackages ==
    {NoFile, File(<<Garbage>>), File(Serialize(JDict([name |-> JStr("app")])))}
        \cup {File(Serialize(JDict([scripts |-> ScriptsObject(S)]))) : S \in SUBSET ScriptPool}

InitScripts ==
    /\ \E root \in ScriptRoots, pkg \in ScriptPackages :
         tree = [root |-> root, pkg |-> pkg, git |-> OriginMain]
    /\ found = << >>
    /\ procs = << >>
    /\ pc = "analyze"
    /\ fs = [p \in Paths |-> NoFiles]
    /\ cur = JNull
    /\ before = fs
    /\ written = 0
    /\ resp = NoResponse
    /\ requested = << >>
    /\ output = << >>
    /\ nlines = 0
    /\ ignoreLog = << >>

NextScripts == RunAnalyze

SpecScripts == InitScripts /\ [][NextScripts]_vars

----------------------------------------------------------------------------
(* Ignore-list maintenance on its own: ensure_gitignore run repeatedly on a
   repository whose .gitignore holds any text of up to MaxIgnoreLen tokens *)

IgnoreTokens == {"\n", " ", ".wtmux", ".wtmux/", "dist"}
IgnoreTexts == UNION {[1..n -> IgnoreTokens] : n \in 0..MaxIgnoreLen}

InitIgnore ==
    /\ \E g \in {NoFile} \cup {File(text) : text \in IgnoreTexts} :
         fs = [p \in Paths |-> IF p = AbsRepo
                               THEN [dir |-> FALSE, config |-> NoFile,
                                     tmp |-> NoFile, gitignore |-> g]
                               ELSE NoFiles]
    /\ pc = "ignore"
    /\ cur = JNull
    /\ before = fs
    /\ written = 0
    /\ resp = NoResponse
    /\ requested = << >>
    /\ output = << >>
    /\ nlines = 0
    /\ ignoreLog = << >>
    /\ tree = {}
    /\ found = << >>
    /\ procs = << >>

RunEnsureGitignore ==
    /\ pc = "ignore"
    /\ Len(ignoreLog) < MaxRuns
    /\ LET g == ensure_gitignore(fs, AbsRepo) IN
         /\ fs' = g.files
         /\ ignoreLog' = Append(ignoreLog, [added |-> g.added,
                                            text |-> g.files[AbsRepo].gitignore.data])
    /\ UNCHANGED <<pc, cur, before, written, resp, requested, output, nlines, tree, found, procs>>

NextIgnore == RunEnsureGitignore

SpecIgnore == InitIgnore /\ [][NextIgnore]_vars

\* the same runs on .gitignore files whose lines end in "\n", "\r\n" or "\r"
AppendTokens == {"\n", "\r", ".wtmux", "dist"}
AppendTexts == UNION {[1..n -> AppendTokens] : n \in 0..MaxIgnoreLen}

InitAppend ==
    /\ \E g \in {NoFile} \cup {File(text) : text \in AppendTexts} :
         fs = [p \in Paths |-> IF p = AbsRepo
                               THEN [dir |-> FALSE, config |-> NoFile,
                                     tmp |-> NoFile, gitignore |-> g]
                               ELSE NoFiles]
    /\ pc = "ignore"
    /\ cur = JNull
    /\ before = fs
    /\ written = 0
    /\ resp = NoResponse
    /\ requested = << >>
    /\ output = << >>
    /\ nlines = 0
    /\ ignoreLog = << >>
    /\ tree = {}
    /\ found = << >>
    /\ procs = << >>

NextAppend == RunEnsureGitignore

SpecAppend == InitAppend /\ [][NextAppend]_vars

----------------------------------------------------------------------------
(* Properties of the dispatcher (specification Spec) *)

\* the line cur has been handled to its end: the loop is back at its top, or
\* an exception ended the process
Handled == pc \in {"idle", "crashed"}

IsMessage(v) == IsDict(v)
IdOf(msg) == Get(msg, "id", JNull)
MethodOf(msg) == Get(msg, "method", JStr(""))

HasId(o) == o.id # JNull
IdsOf(lines) == [i \in 1..Len(lines) |-> lines[i].id]

\* C1: once every line read has been handled, the response lines that carry
\* an id carry exactly the ids of the id-carrying requests read, one each, in
\* the order the requests arrived.
C1_ResponsesMatchRequests ==
    Handled => IdsOf(SelectSeq(output, HasId)) = requested

\* C4: no input line ends the server process: it never dies of an exception
\* raised while handling a line.
C4_NoLineTerminatesServer == pc # "crashed"

\* C5: a tools/call request that carries an id is answered with a JSON-RPC
\* result carrying that id, never with an error object and never left
\* without an answer, and the server is back at the top of its loop.
C5_ToolCallAnsweredWithResult ==
    (/\ Handled
     /\ IsMessage(cur)
     /\ MethodOf(cur) = JStr("tools/call")
     /\ IdOf(cur) # JNull)
    => (pc = "idle" /\ resp.kind = "result" /\ resp.id = IdOf(cur))

\* C6: a message without an id produces no output line, whatever its method.
C6_NotificationProducesNoOutput ==
    (Handled /\ IsMessage(cur) /\ IdOf(cur) = JNull) => resp = NoResponse

----------------------------------------------------------------------------
(* Properties of the config store *)

ConfigPath(files, p) == files[p].config

\* cur is a configure_project call that got as far as write_config
Writing == IsMessage(cur) /\ ReachesWrite(cur)

\* C2: from the moment a configure_project call starts to persist its config,
\* at every step and also when the process is terminated at any of them, the
\* file config.json is exactly the file it was before the call (or absent as
\* before) or exactly the complete new text.
C2_ConfigFileNeverPartial ==
    Writing =>
        ConfigPath(fs, prep.repo_path) \in
            {ConfigPath(before, prep.repo_path), File(Serialize(prep.config))}

\* C2, witness: the process was terminated while the temporary file held only
\* part of the new text, and the config file that existed before is intact.
C2_KilledMidWrite ==
    /\ pc = "killed"
    /\ Writing
    /\ fs[prep.repo_path].tmp.exists
    /\ Len(fs[prep.repo_path].tmp.data) \in 1..BodyChunks
    /\ before[prep.repo_path].config.exists
    /\ fs[prep.repo_path].config = before[prep.repo_path].config

\* cur calls tool with an arguments object
CallsWithObject(tool) ==
    IsMessage(cur) /\ HandlerOf(cur) = tool /\ IsDict(ArgumentsOf(cur))

\* cur is a configure_project call on the repository with a list of run configurations
ConfiguresRunners ==
    /\ CallsWithObject("configure_project")
    /\ Get(ArgumentsOf(cur), "repoPath", JNull) = JStr(AbsRepo)
    /\ Get(ArgumentsOf(cur), "runConfigurations", JNull).t = "list"

Runners == ArgumentsOf(cur).kv["runConfigurations"].xs

\* an integer in 1..65535
PortInRange(port) == port.t = "int" /\ port.n >= 1 /\ port.n <= 65535

\* a run configuration with a name and a command whose port is given and is
\* no integer in 1..65535
HasBadPort(rc) ==
    /\ IsDict(rc)
    /\ Truthy(Get(rc, "name", JNull))
    /\ Truthy(Get(rc, "command", JNull))
    /\ Get(rc, "port", JNull) # JNull
    /\ ~PortInRange(rc.kv["port"])

IsErrorResult(r) == r.kind = "result" /\ r.body.isError

\* C3: a configure_project call with a run configuration whose port is given
\* and is no integer in 1..65535 never reaches write_config; it returns error
\* content naming that runner and that port, and leaves every file as it was.
C3_BadPortRejectedWithoutWrite ==
    (ConfiguresRunners /\ \E i \in 1..Len(Runners) : HasBadPort(Runners[i]))
    => /\ pc = "idle"
       /\ IsErrorResult(resp)
       /\ \E i \in 1..Len(Runners) :
             /\ HasBadPort(Runners[i])
             /\ resp.body.content = [msg |-> "Invalid port {} for '{}'. Must be 1-65535.",
                                     port |-> Runners[i].kv["port"],
                                     name |-> Runners[i].kv["name"]]
       /\ fs = before

\* a run-configuration object that lacks name or command
LacksNameOrCommand(rc) ==
    IsDict(rc) /\ ("name" \notin DOMAIN rc.kv \/ "command" \notin DOMAIN rc.kv)

\* C10: a configure_project call with a run-configuration entry that does not
\* supply both name and command returns error content and never reaches
\* write_config.
C10_IncompleteRunnerRejected ==
    (ConfiguresRunners /\ \E i \in 1..Len(Runners) : LacksNameOrCommand(Runners[i]))
    => (pc = "idle" /\ IsErrorResult(resp) /\ fs = before)

\* an analyze_project or configure_project call whose repoPath is missing,
\* not absolute, or no directory holding .git
BadRepoPathCall ==
    /\ CallsWithObject("analyze_project") \/ CallsWithObject("configure_project")
    /\ LET args == ArgumentsOf(cur) IN
         \/ "repoPath" \notin DOMAIN args.kv
         \/ args.kv["repoPath"] \in {JStr(""), JStr(RelRepo), JStr(AbsPlain)}

\* C9: analyze_project and configure_project with a repoPath that is missing,
\* not absolute or not a directory holding .git return error content, and no
\* file or directory is created or changed.
C9_BadRepoPathChangesNothing ==
    BadRepoPathCall => (pc = "idle" /\ IsErrorResult(resp) /\ fs = before)

\* C9, witness: configure_project on an absolute directory without .git has
\* returned its error.
C9_ConfigureOnPlainDirectory ==
    /\ pc = "idle"
    /\ CallsWithObject("configure_project")
    /\ Get(ArgumentsOf(cur), "repoPath", JNull) = JStr(AbsPlain)
    /\ IsErrorResult(resp)
    /\ resp.body.content = NoGitDir(JStr(AbsPlain))

\* a configure_project call has returned its summary
ConfigureSucceeded ==
    /\ pc = "idle"
    /\ IsMessage(cur)
    /\ HandlerOf(cur) = "configure_project"
    /\ resp.kind = "result"
    /\ ~resp.body.isError

RequiredKeys == {"envFilesToCopy", "setupCommands", "runConfigurations"}
SuppliedOnlyKeys == {"projectName", "defaultBranch", "worktreeBasePath"}

Stored == read_config(fs, ArgumentsOf(cur).kv["repoPath"].s).val
Supplied(k) == k \in DOMAIN ArgumentsOf(cur).kv

\* what C8 says of every optional key but terminalStartCommand
StoredFromCallAlone ==
    /\ IsDict(Stored)
    /\ Stored = ConfigurePrepare(ArgumentsOf(cur)).val.config
    /\ RequiredKeys \subseteq DOMAIN Stored.kv
    /\ DOMAIN Stored.kv \subseteq RequiredKeys \cup SuppliedOnlyKeys \cup {"terminalStartCommand"}
    /\ \A k \in SuppliedOnlyKeys :
          k \in DOMAIN Stored.kv => (Supplied(k) /\ Stored.kv[k] = ArgumentsOf(cur).kv[k])

\* C8 as stated: after a successful configure_project the stored config comes
\* from the call alone; the three list fields are present, and projectName,
\* defaultBranch, worktreeBasePath and terminalStartCommand are present only
\* when the caller supplied them.
C8_OptionalFieldsOnlyWhenSupplied ==
    ConfigureSucceeded =>
        /\ StoredFromCallAlone
        /\ "terminalStartCommand" \in DOMAIN Stored.kv => Supplied("terminalStartCommand")

\* C8 amended: as C8, but terminalStartCommand is present only when the
\* caller supplied it or set startClaudeInTerminals.
C8_StoredConfigFromCallAlone ==
    ConfigureSucceeded =>
        /\ StoredFromCallAlone
        /\ "terminalStartCommand" \in DOMAIN Stored.kv =>
              \/ Supplied("terminalStartCommand")
              \/ Get(ArgumentsOf(cur), "startClaudeInTerminals", JNull) = JBool(TRUE)

\* C8, witness: a call that supplied defaultBranch and no projectName has
\* replaced a config that held projectName and a field of its own.
C8_ReplacedOlderConfig ==
    /\ ConfigureSucceeded
    /\ before[AbsRepo].config = File(Serialize(OldConfig))
    /\ Supplied("defaultBranch")
    /\ ~Supplied("projectName")
    /\ DOMAIN Stored.kv = RequiredKeys \cup {"defaultBranch"}

----------------------------------------------------------------------------
(* Properties of ignore-list maintenance (specification SpecIgnore) *)

EntryLines == {<<".wtmux">>, <<".wtmux/">>}

\* the lines of a text, as the text between its newlines
LinesOf(text) == split(text)

\* the number of config-directory entries in a text (surrounding blanks aside)
EntryCount(text) ==
    Cardinality({i \in 1..Len(LinesOf(text)) : strip(LinesOf(text)[i]) \in EntryLines})

InitialIgnoreText == before[AbsRepo].gitignore.data

AddedCount == Cardinality({i \in 1..Len(ignoreLog) : ignoreLog[i].added})

\* what C7 says of the runs after the first and of when a run appends
AppendsOnceOnly ==
    /\ Len(ignoreLog) >= 1 /\ ignoreLog[1].added =>
          \A i \in 1..Len(LinesOf(InitialIgnoreText)) :
              LinesOf(InitialIgnoreText)[i] \notin EntryLines
    /\ \A i \in 2..Len(ignoreLog) :
          ~ignoreLog[i].added /\ ignoreLog[i].text = ignoreLog[1].text
    /\ AddedCount <= 1

\* C7 as stated: after the first run the ignore file holds exactly one
\* config-directory entry; a further run changes nothing and reports no
\* change; a run appends only when no line is '.wtmux' or '.wtmux/', so any
\* number of runs adds at most one entry.
C7_ExactlyOneEntryAfterFirstRun ==
    /\ Len(ignoreLog) >= 1 => EntryCount(ignoreLog[1].text) = 1
    /\ AppendsOnceOnly

\* C7 amended: after the first run the ignore file holds at least one
\* config-directory entry, and exactly one when it held at most one before;
\* the rest as stated.
C7_OneEntryAddedAtMost ==
    /\ Len(ignoreLog) >= 1 =>
          /\ EntryCount(ignoreLog[1].text) >= 1
          /\ EntryCount(InitialIgnoreText) <= 1 => EntryCount(ignoreLog[1].text) = 1
          /\ EntryCount(ignoreLog[1].text) =
                EntryCount(InitialIgnoreText) + (IF ignoreLog[1].added THEN 1 ELSE 0)
    /\ AppendsOnceOnly

\* C7, witness: two runs on a .gitignore that held text but no entry: the
\* first appended, the second reported no change.
C7_AppendedThenUnchanged ==
    /\ Len(ignoreLog) = 2
    /\ ignoreLog[1].added
    /\ ~ignoreLog[2].added
    /\ InitialIgnoreText # << >>
    /\ EntryCount(InitialIgnoreText) = 0
    /\ EntryCount(fs[AbsRepo].gitignore.data) = 1

----------------------------------------------------------------------------
(* Properties of the read-only tools (specification SpecRead) *)

\* cur is a get_project_config call whose repoPath is an absolute path
ReadsConfigAtAbsolutePath ==
    /\ CallsWithObject("get_project_config")
    /\ Get(ArgumentsOf(cur), "repoPath", JNull) \in {JStr(AbsRepo), JStr(AbsPlain)}

ConfigFileRead == before[ArgumentsOf(cur).kv["repoPath"].s].config

NotConfigured ==
    [msg |-> "No .wtmux/config.json found at {}", path |-> ArgumentsOf(cur).kv["repoPath"]]

\* C11: get_project_config with an absolute repoPath is answered with a result
\* that is no error in every case: the stored config when the file exists and
\* parses, and the 'not configured' message when the config directory or the
\* file is missing, the content is malformed, or the repository has no .git.
C11_ConfigReadNeverErrors ==
    (Handled /\ ReadsConfigAtAbsolutePath) =>
        /\ pc = "idle"
        /\ resp.kind = "result"
        /\ resp.id = IdOf(cur)
        /\ ~resp.body.isError
        /\ resp.body.content =
              IF ConfigFileRead.exists /\ JSONLoad(ConfigFileRead.data).exc = ""
              THEN [msg |-> "config", config |-> JSONLoad(ConfigFileRead.data).val]
              ELSE NotConfigured

----------------------------------------------------------------------------
(* Properties of what configure_project stores (specification SpecStore) *)

StartClaude == Get(ArgumentsOf(cur), "startClaudeInTerminals", JNull)

\* startClaudeInTerminals true stores the literal 'claude'
ClaudeForced ==
    StartClaude = JBool(TRUE) =>
        /\ "terminalStartCommand" \in DOMAIN Stored.kv
        /\ Stored.kv["terminalStartCommand"] = JStr("claude")

\* C12 as stated: a successful configure_project with startClaudeInTerminals
\* true stores terminalStartCommand 'claude' whatever terminalStartCommand the
\* call supplied; with startClaudeInTerminals false or absent the supplied
\* terminalStartCommand is stored.
C12_SuppliedCommandStored ==
    ConfigureSucceeded =>
        /\ ClaudeForced
        /\ (StartClaude \in {JNull, JBool(FALSE)} /\ Supplied("terminalStartCommand")) =>
              /\ "terminalStartCommand" \in DOMAIN Stored.kv
              /\ Stored.kv["terminalStartCommand"] = ArgumentsOf(cur).kv["terminalStartCommand"]

\* C12 amended: as C12, but with startClaudeInTerminals false or absent the
\* supplied terminalStartCommand is stored when it is not empty, and no
\* terminalStartCommand is stored when it is the empty string.
C12_NonEmptyCommandStored ==
    ConfigureSucceeded =>
        /\ ClaudeForced
        /\ (StartClaude \in {JNull, JBool(FALSE)} /\ Supplied("terminalStartCommand")) =>
              IF ArgumentsOf(cur).kv["terminalStartCommand"] = JStr("")
              THEN "terminalStartCommand" \notin DOMAIN Stored.kv
              ELSE /\ "terminalStartCommand" \in DOMAIN Stored.kv
                   /\ Stored.kv["terminalStartCommand"] =
                         ArgumentsOf(cur).kv["terminalStartCommand"]

\* C12, witness: a call that set startClaudeInTerminals and supplied its own
\* terminalStartCommand has stored 'claude'.
C12_ClaudeOverridesExplicit ==
    /\ ConfigureSucceeded
    /\ StartClaude = JBool(TRUE)
    /\ Get(ArgumentsOf(cur), "terminalStartCommand", JNull) = JStr("vim")
    /\ Stored.kv["terminalStartCommand"] = JStr("claude")

----------------------------------------------------------------------------
(* Unknown methods (specification Spec) *)

KnownMethods ==
    {JStr("initialize"), JStr("notifications/initialized"), JStr("tools/list"),
     JStr("tools/call"), JStr("ping")}

\* C13: a request with an id whose method is none of the five the server
\* knows is answered with one JSON-RPC error response, code -32601, carrying
\* that id; the same message without an id produces no output and changes no
\* file, and the server goes on.
C13_UnknownMethodNotFound ==
    (Handled /\ IsMessage(cur) /\ MethodOf(cur) \notin KnownMethods) =>
        /\ pc = "idle"
        /\ fs = before
        /\ Len(output) <= nlines
        /\ IF IdOf(cur) # JNull
           THEN /\ resp = [id |-> IdOf(cur), kind |-> "error",
                           body |-> [code |-> -32601, method |-> MethodOf(cur)]]
                /\ output # << >>
                /\ output[Len(output)] = [id |-> IdOf(cur), kind |-> "error"]
           ELSE resp = NoResponse

\* C13, witness: an unknown method that carried an id got its error response
\* after an earlier line had been answered.
C13_UnknownMethodAfterAnotherLine ==
    /\ pc = "idle"
    /\ IsMessage(cur)
    /\ MethodOf(cur) = JStr("resources/list")
    /\ IdOf(cur) = JInt(2)
    /\ resp.kind = "error"
    /\ Len(output) = 2

----------------------------------------------------------------------------
(* Properties of package-manager detection (specification SpecDetect) *)

Present(f) == f \in tree

DetectedName == IF found = JNull THEN "none" ELSE found.kv["name"].s

\* the manager the precedence puts first among those whose files are present
FirstByPrecedence ==
    IF Present("package.json")
    THEN (IF Present("bun.lockb") \/ Present("bun.lock") THEN "bun"
          ELSE IF Present("pnpm-lock.yaml") THEN "pnpm"
          ELSE IF Present("yarn.lock") THEN "yarn"
          ELSE "npm")
    ELSE IF Present("Gemfile") THEN "bundler"
    ELSE IF Present("requirements.txt") \/ Present("pyproject.toml") THEN "pip"
    ELSE IF Present("composer.json") THEN "composer"
    ELSE IF Present("Cargo.toml") THEN "cargo"
    ELSE IF Present("go.mod") THEN "go"
    ELSE IF Present("Package.swift") THEN "swift"
    ELSE IF Present("Podfile") THEN "cocoapods"
    ELSE "none"

\* candidate i of the table has its manifest and, when it names one, its lock file
Satisfied(i) ==
    LET c == PACKAGE_MANAGER_CANDIDATES[i] IN
    Present(c.manifest) /\ (c.lock_file = JNull \/ Present(c.lock_file.s))

\* C14: for every set of files at the repository root, detection returns the
\* first entry of the precedence table whose manifest is present and whose
\* required lock file, if any, is present: bun before pnpm before yarn before
\* bare npm, any package.json result before every other ecosystem, and no
\* package manager when no manifest is present.
C14_FirstCandidateWins ==
    pc = "detected" =>
        /\ DetectedName = FirstByPrecedence
        /\ (found = JNull) <=> (\A i \in 1..Len(PACKAGE_MANAGER_CANDIDATES) : ~Satisfied(i))
        /\ found # JNull =>
              \E i \in 1..Len(PACKAGE_MANAGER_CANDIDATES) :
                 /\ Satisfied(i)
                 /\ \A j \in 1..(i - 1) : ~Satisfied(j)
                 /\ found = JDict([name |-> JStr(PACKAGE_MANAGER_CANDIDATES[i].name),
                                   setupCommand |-> JStr(PACKAGE_MANAGER_CANDIDATES[i].setup_cmd),
                                   lockFile |-> PACKAGE_MANAGER_CANDIDATES[i].lock_file])

\* C14, witness: package.json with yarn.lock beside Cargo.toml and Gemfile,
\* and no bun or pnpm lock file: yarn is detected.
C14_YarnBesideOtherEcosystems ==
    /\ pc = "detected"
    /\ tree = {"package.json", "yarn.lock", "Cargo.toml", "Gemfile"}
    /\ DetectedName = "yarn"
    /\ found.kv["lockFile"] = JStr("yarn.lock")

----------------------------------------------------------------------------
(* Properties of script categorization (specification SpecCategorize) *)

\* two characters that are the same letter, case aside
CasePairs == {<<UpperCase[k], LowerCase[k]>> : k \in 1..Len(UpperCase)}
SameLetter(a, b) == a = b \/ <<a, b>> \in CasePairs \/ <<b, a>> \in CasePairs

\* token occurs in text somewhere, case aside
Occurs(token, text) ==
    \E off \in 0..(Len(text) - Len(token)) :
        \A k \in 1..Len(token) : SameLetter(text[off + k], token[k])

SomeOccurs(tokens, text) == \E k \in 1..Len(tokens) : Occurs(tokens[k], text)

CategoryTests ==
    <<[category |-> "devServer",
       holds |-> SomeOccurs(DEV_NAME_PATTERNS, tree.name)
                    \/ SomeOccurs(DEV_CMD_PATTERNS, tree.command)],
      [category |-> "build", holds |-> SomeOccurs(BUILD_PATTERNS, tree.name)],
      [category |-> "test", holds |-> SomeOccurs(TEST_PATTERNS, tree.name)],
      [category |-> "lint", holds |-> SomeOccurs(LINT_PATTERNS, tree.name)],
      [category |-> "other", holds |-> TRUE]>>

BuildDevAssets == <<"b", "u", "i", "l", "d", ":", "d", "e", "v", "-", "a", "s", "s", "e", "t", "s">>

\* C15: the category of a script is the first in the order devServer, build,
\* test, lint, other whose test holds, the tests being substring containment
\* with case ignored: a name with a dev token (or a command with a dev-tool
\* invocation) is devServer even when the name also holds a build, test or
\* lint token, and build:dev-assets is devServer.
C15_FirstCategoryWins ==
    pc = "categorized" =>
        LET tests == CategoryTests IN
        /\ \E i \in 1..Len(tests) :
              /\ tests[i].holds
              /\ \A j \in 1..(i - 1) : ~tests[j].holds
              /\ found = tests[i].category
        /\ tree.name = BuildDevAssets => found = "devServer"

\* C15, witness: build:dev-assets with a command that names no dev tool has
\* been categorized as devServer.
C15_BuildDevAssetsIsDevServer ==
    /\ pc = "categorized"
    /\ tree.name = BuildDevAssets
    /\ tree.command = <<"t", "s", "c">>
    /\ found = "devServer"

----------------------------------------------------------------------------
(* Properties of the env-file scan (specification SpecScan) *)

\* the names of a repo-relative path: the text between its "/"
RECURSIVE NamesOfPath(_, _)
NamesOfPath(path, name) ==
    IF path = << >> THEN <<name>>
    ELSE IF Head(path) = "/"
         THEN <<name>> \o NamesOfPath(Tail(path), << >>)
         ELSE NamesOfPath(Tail(path), Append(name, Head(path)))

\* the directory names a returned path passes through
DirectoriesOf(path) ==
    LET names == NamesOfPath(path, << >>) IN {names[i] : i \in 1..(Len(names) - 1)}

\* C16: no path the scan returns has a skip-listed or dot-prefixed directory
\* name among its directories, whatever files lie inside such directories.
C16_NoPathThroughSkippedDirectory ==
    pc = "scanned" =>
        \A k \in 1..Len(found) :
            \A d \in DirectoriesOf(found[k]) : d \notin SKIP_DIRS /\ d[1] # "."

\* C16, witness: the tree holds .env inside node_modules, inside .config and
\* inside src/build, and the scan returned only src/api.env.
C16_EnvFilesInsideSkippedDirectories ==
    /\ pc = "scanned"
    /\ tree = {<<<<"n", "o", "d", "e", "_", "m", "o", "d", "u", "l", "e", "s">>, <<".", "e", "n", "v">>>>,
               <<<<".", "c", "o", "n", "f", "i", "g">>, <<".", "e", "n", "v">>>>,
               <<<<"s", "r", "c">>, <<"b", "u", "i", "l", "d">>, <<".", "e", "n", "v">>>>,
               <<<<"s", "r", "c">>, <<"a", "p", "i", ".", "e", "n", "v">>>>}
    /\ found = <<<<"s", "r", "c", "/", "a", "p", "i", ".", "e", "n", "v">>>>

\* a file name that starts or ends with .env
Qualifies(name) ==
    \/ Len(name) >= 4 /\ SubSeq(name, 1, 4) = <<".", "e", "n", "v">>
    \/ Len(name) >= 4 /\ SubSeq(name, Len(name) - 3, Len(name)) = <<".", "e", "n", "v">>

\* the files of the tree the scan is to return: qualifying name, at most 5
\* directories down, none of them skipped
Scannable ==
    {f \in tree :
        /\ Qualifies(f[Len(f)])
        /\ Len(f) - 1 <= 5
        /\ \A i \in 1..(Len(f) - 1) : f[i] \notin SKIP_DIRS /\ f[i][1] # "."}

\* C17: the scan returns exactly the files whose name starts or ends with
\* .env and that lie at most 5 directory levels below the root through
\* directories that are not skipped, as repo-relative paths, each once, in
\* lexical order; for root files .env, .env.local, config.env, notes.txt the
\* result is .env, .env.local, config.env.
C17_ScanReturnsExactlyEnvFiles ==
    pc = "scanned" =>
        /\ {found[k] : k \in 1..Len(found)} = {relpath(f) : f \in Scannable}
        /\ Len(found) = Cardinality(Scannable)
        /\ \A i \in 1..Len(found) : \A j \in (i + 1)..Len(found) : str_less(found[i], found[j])
        /\ tree = RootFiles =>
              found = <<<<".", "e", "n", "v">>, <<".", "e", "n", "v", ".", "l", "o", "c", "a", "l">>, <<"c", "o", "n", "f", "i", "g", ".", "e", "n", "v">>>>

\* C17, witness: .env five directories down was returned and .env six
\* directories down was not, in a tree that also holds root files.
C17_DepthFiveReturnedDepthSixNot ==
    /\ pc = "scanned"
    /\ DeepFile(5) \in tree
    /\ DeepFile(6) \in tree
    /\ RootFiles \subseteq tree
    /\ \E k \in 1..Len(found) : found[k] = relpath(DeepFile(5))
    /\ \A k \in 1..Len(found) : found[k] # relpath(DeepFile(6))

----------------------------------------------------------------------------
(* Properties of the stored run configurations (specification SpecStore) *)

\* the run configurations of the config file of the repository, when it
\* holds a config
StoredRunners ==
    LET f == fs[AbsRepo].config IN
    IF f.exists /\ JSONLoad(f.data).exc = "" /\ IsDict(JSONLoad(f.data).val)
    THEN Get(JSONLoad(f.data).val, "runConfigurations", EmptyList).xs
    ELSE << >>

\* C18: in every reachable state, every run configuration in the config file
\* has a port that is an integer within 1..65535, or has no port.
C18_StoredPortsInRange ==
    \A i \in 1..Len(StoredRunners) :
        LET port == Get(StoredRunners[i], "port", JNull) IN
        port = JNull \/ PortInRange(port)

----------------------------------------------------------------------------
(* Which requests write (specification Spec) *)

\* C19: analyze_project and get_project_config never create, change or
\* delete the config file, its temporary file, the config directory or the
\* ignore file, and neither does any other message that is no
\* configure_project call: while and after such a message is handled the
\* files are what they were when it was read.
C19_OnlyConfigureWrites ==
    HandlerOf(cur) # "configure_project" => fs = before

\* C19, witness: analyze_project has returned its analysis of a repository
\* that holds a config and an ignore file, after an earlier line was answered.
C19_AnalyzedConfiguredRepository ==
    /\ pc = "idle"
    /\ HandlerOf(cur) = "analyze_project"
    /\ resp.kind = "result"
    /\ ~resp.body.isError
    /\ resp.body.content.existingConfig # JNull
    /\ fs[AbsRepo].config.exists
    /\ fs[AbsRepo].gitignore.exists
    /\ Len(output) = 2

\* configure_project has returned error content
ConfigureReturnedError ==
    /\ pc = "idle"
    /\ HandlerOf(cur) = "configure_project"
    /\ resp.kind = "result"
    /\ resp.body.isError

\* C20: whenever configure_project returns error content, whatever the cause,
\* a persistence error included, the config file is the file it was before
\* the call.
C20_ErrorLeavesConfigUnchanged ==
    ConfigureReturnedError =>
        \A p \in Paths : ConfigPath(fs, p) = ConfigPath(before, p)

----------------------------------------------------------------------------
(* Two processes writing the same config (specification SpecTwo) *)

\* C21: while two server processes run configure_project on the same
\* repository, the config file holds at every moment the content it had
\* before or the complete content of one whole call, never a mix of the two
\* writes and never a truncated file.
C21_ConcurrentWritesNeverMix ==
    ConfigPath(fs, AbsRepo) \in
        {ConfigPath(before, AbsRepo)} \cup {File(Serialize(TwoPrep(p).config)) : p \in Procs}

----------------------------------------------------------------------------
(* Reading back what configure_project stored (specification SpecStore) *)

\* the config the configure_project call just served has built and written
Persisted == ConfigurePrepare(ArgumentsOf(cur)).val.config

\* the server has answered a configure_project call with its summary, and the
\* very next line it reads is a call of the tool name with the same repoPath
ReadsBack(name) ==
    /\ ConfigureSucceeded
    /\ nlines' = nlines + 1
    /\ IsMessage(cur')
    /\ HandlerOf(cur') = name
    /\ ArgumentsOf(cur') = RepoPathArgs(ArgumentsOf(cur).kv["repoPath"])

\* C22: after a configure_project call that succeeds, a get_project_config
\* on the same repoPath with no configure_project in between returns exactly
\* the config that call persisted, and an analyze_project that answers
\* reports that same config as existingConfig.
C22_ReadBackWhatWasPersisted ==
    [][/\ ReadsBack("get_project_config") =>
             /\ pc' = "idle"
             /\ resp'.kind = "result"
             /\ ~resp'.body.isError
             /\ resp'.body.content = [msg |-> "config", config |-> Persisted]
       /\ (ReadsBack("analyze_project") /\ pc' = "idle") =>
             /\ resp'.kind = "result"
             /\ ~resp'.body.isError
             /\ resp'.body.content.existingConfig = Persisted]_vars

\* C22, witness: get_project_config has returned a config with a run
\* configuration, which only a configure_project call served before it on
\* this repository can have stored.
C22_GetReturnedStoredRunners ==
    /\ pc = "idle"
    /\ CallsWithObject("get_project_config")
    /\ nlines = 2
    /\ Len(output) = 2
    /\ resp.kind = "result"
    /\ resp.body.content.msg = "config"
    /\ resp.body.content.config # OldConfig
    /\ resp.body.content.config.kv["runConfigurations"] # EmptyList
    /\ fs[AbsRepo].config = File(Serialize(resp.body.content.config))

----------------------------------------------------------------------------
(* What an append leaves of the ignore file (specification SpecAppend) *)

\* the text of the ignore file before run i
TextBeforeRun(i) == IF i = 1 THEN InitialIgnoreText ELSE ignoreLog[i - 1].text

\* C23: when a run appends the entry, the text the ignore file held is kept
\* as it was, line by line and in order, and the entry follows it as a last
\* line of its own, after a newline when the text did not end with one; when
\* the entry is already present the file is left as it was.
C23_AppendKeepsExistingLines ==
    \A i \in 1..Len(ignoreLog) :
        ignoreLog[i].text =
            IF ignoreLog[i].added
            THEN TextBeforeRun(i)
                    \o (IF endswithNewline(TextBeforeRun(i)) THEN << >> ELSE <<"\n">>)
                    \o <<".wtmux", "\n">>
            ELSE TextBeforeRun(i)

----------------------------------------------------------------------------
(* Properties of default-branch detection (specification SpecBranch) *)

\* a git command that succeeded: it ran and exited with return code 0
Succeeded(outcome) == outcome.kind = "exit" /\ outcome.returncode = 0

\* the name a line of output holds with its leading segment, up to the first
\* slash, taken off
WithoutRemote(stdout) ==
    LET name == SubSeq(stdout, 1, Len(stdout) - 1)
        slashes == {i \in 1..Len(name) : name[i] = "/"}
    IN IF slashes = {} THEN name
       ELSE SubSeq(name, (CHOOSE i \in slashes : \A j \in slashes : i <= j) + 1, Len(name))

FirstSucceeding ==
    IF Succeeded(tree.git.head) THEN JStr(WithoutRemote(tree.git.head.stdout))
    ELSE IF Succeeded(tree.git.main) THEN JStr(<<"m", "a", "i", "n">>)
    ELSE IF Succeeded(tree.git.master) THEN JStr(<<"m", "a", "s", "t", "e", "r">>)
    ELSE JNull

\* C24: analyze_project answers without an error whatever the git commands
\* meet, and its defaultBranch is that of the first probe that succeeds: the
\* origin HEAD symbolic ref without its remote-name segment, else main when
\* main verifies, else master when master verifies, else nothing; a probe
\* that fails or times out counts as not succeeding.
C24_FirstSucceedingProbe ==
    pc = "analyzed" =>
        /\ found.exc = ""
        /\ ~found.val.isError
        /\ found.val.content.defaultBranch = FirstSucceeding

\* the same for repositories whose origin HEAD names a branch in the
\* encoding of the locale
C24_DecodableOutput ==
    (pc = "analyzed" /\ tree.git.head.decodes) =>
        /\ found.exc = ""
        /\ ~found.val.isError
        /\ found.val.content.defaultBranch = FirstSucceeding

----------------------------------------------------------------------------
(* Properties of the scripts analyze_project lists (specification SpecScripts) *)

CategoryRanks == <<"devServer", "build", "test", "lint", "other">>
RankOf(entry) == CHOOSE k \in 1..Len(CategoryRanks) : CategoryRanks[k] = entry.kv["category"].s

ManagerWord == [npm |-> <<"n", "p", "m">>, yarn |-> <<"y", "a", "r", "n">>, pnpm |-> <<"p", "n", "p", "m">>, bun |-> <<"b", "u", "n">>]

Listed == found.val.content.scripts.xs
Manager == found.val.content.packageManager

\* the scripts object of the package.json analyze_project read, when it has one
ManifestScripts ==
    IF tree.pkg.exists /\ JSONLoad(tree.pkg.data).exc = ""
          /\ "scripts" \in DOMAIN JSONLoad(tree.pkg.data).val.kv
    THEN JSONLoad(tree.pkg.data).val.kv["scripts"].kv
    ELSE << >>

\* C25: the scripts analyze_project returns are empty unless the detected
\* package manager is npm, yarn, pnpm or bun; with such a manager they are
\* the scripts of package.json, each once, in the order of category rank
\* (devServer, build, test, lint, other) and of script name within a
\* category, and each runCommand is the manager, ' run ' and the name, or
\* 'yarn ' and the name for yarn.
C25_ScriptsSortedWithRunCommands ==
    (pc = "analyzed" /\ found.exc = "") =>
        /\ ~found.val.isError
        /\ IF Manager = JNull \/ Manager.kv["name"].s \notin {"npm", "yarn", "pnpm", "bun"}
           THEN Listed = << >>
           ELSE /\ {Listed[i].kv["name"].s : i \in 1..Len(Listed)} = DOMAIN ManifestScripts
                /\ \A i \in 1..Len(Listed) :
                      /\ Listed[i].kv["command"] = ManifestScripts[Listed[i].kv["name"].s]
                      /\ Listed[i].kv["runCommand"].s =
                            IF Manager.kv["name"].s = "yarn"
                            THEN <<"y", "a", "r", "n", " ">> \o Listed[i].kv["name"].s
                            ELSE ManagerWord[Manager.kv["name"].s] \o <<" ", "r", "u", "n", " ">>
                                    \o Listed[i].kv["name"].s
                /\ \A i \in 1..Len(Listed) : \A j \in (i + 1)..Len(Listed) :
                      \/ RankOf(Listed[i]) < RankOf(Listed[j])
                      \/ /\ RankOf(Listed[i]) = RankOf(Listed[j])
                         /\ str_less(Listed[i].kv["name"].s, Listed[j].kv["name"].s)

\* C25, witness: a yarn project with every script of the pool: all five
\* categories are listed, two of them with more than one script.
C25_YarnProjectAllCategories ==
    /\ pc = "analyzed"
    /\ found.exc = ""
    /\ Manager # JNull
    /\ Manager.kv["name"].s = "yarn"
    /\ Len(Listed) = Cardinality(ScriptPool)
    /\ {RankOf(Listed[i]) : i \in 1..Len(Listed)} = 1..Len(CategoryRanks)
    /\ Listed[1].kv["runCommand"].s = <<"y", "a", "r", "n", " ", "d", "e", "v">>

====
